---------------------------- MODULE Spec2Model ----------------------------
(***************************************************************************)
(* Verification model of src/app.py (giornata-scienza-streamlit).          *)
(*                                                                         *)
(* Part I   - calcola_larghezza_temporale (the Width Estimator).           *)
(* Part II  - the section 'Riconoscimento Battimenti' (the Beat            *)
(*            Recognizer), from the decoded audio to its outcome.          *)
(* Part III - the section 'Analisi Audio Microfono' (the audio Spectral    *)
(*            Analyzer), from the decoded audio to its top-5 table.        *)
(* Part IV  - the envelope pipelines (np.pad, signal.hilbert, slice) of    *)
(*            the sections that draw or measure an envelope.               *)
(* Part V   - the sweeps and the divisions by a bandwidth.                 *)
(* Part VI  - the session state of the sections 'Battimenti', 'Pacchetti   *)
(*            d'Onda' and 'Animazione Propagazione' across script runs.    *)
(*                                                                         *)
(* Numbers.  Envelope samples are naturals counted in units of 1e-11, so   *)
(* that the floor 1e-10 of line 338 is 10 units.  The normalised envelope  *)
(* env_norm[i] = inviluppo[i] / max_env is the rational with numerator     *)
(* inviluppo[i] and denominator max_env; its comparisons are done by       *)
(* cross-multiplication (max_env > 0 wherever the code normalises).        *)
(* Frequencies of the FFT axis are rationals k*fs/window, kept as records   *)
(* [num |-> k*fs, den |-> window].                                         *)
(* The FFT itself is not computed: the spectra it produces are inputs of   *)
(* the model.  The arrays of Part II are non-negative and kept sparse, as  *)
(* [n |-> length, v |-> the non-zero samples]; every other sample is 0.    *)
(***************************************************************************)
EXTENDS Integers, Sequences, FiniteSets, TLC

VARIABLES
    \* ---- Part I: one call of calcola_larghezza_temporale
    t,              \* the sample grid (argument t), a function on 0..N-1
    inviluppo,      \* the envelope (argument inviluppo), a function on 0..N-1
    threshold,      \* the argument threshold, in hundredths (0.05 -> 5)
    pc_w,           \* "call" before the call, "ret" after it returned
    ris,            \* what the call returned (and how), see calcola_larghezza_temporale
    \* ---- Part II: one run of the section 'Riconoscimento Battimenti'
    sample_rate_beat,   \* sampling rate read from the WAV file (Hz)
    n_camp,             \* len(audio_data_beat), the number of decoded samples
    potenza_beat,       \* amplitude spectrum of the analysis window (lines 2964-2968)
    potenza_env,        \* amplitude spectrum of the centred envelope (lines 3033-3036)
    inviluppo_smooth,   \* the smoothed envelope (line 3029)
    pc_b,               \* position of the script in the section
    passi,              \* the processing steps executed so far, in order
    peaks_beat,         \* result of find_peaks on the masked spectrum (line 2975)
    esito,              \* the outcome shown to the user
    \* ---- Part III: one run of the section 'Analisi Audio Microfono'
    sample_rate,        \* sampling rate read from the WAV file (Hz)
    n_audio,            \* len(audio_data)
    potenza,            \* amplitude spectrum of the analysis window (lines 2798-2802)
    pc_a,               \* position of the script in the section
    analisi,            \* xf, peaks, freq_peaks, amp_peaks, sorted_idx, top_freqs, top_amps
    esito_a,            \* "none", "analisi" or "errore_analisi"
    \* ---- Part IV: one envelope computation
    sito,               \* the place of the source that computes the envelope
    n_seg,              \* length of the signal whose envelope is computed
    arr,                \* the array being worked on, see Segnale
    passi_e,            \* the steps executed so far, in order
    pc_e,               \* position in the pipeline
    \* ---- Part V: one run of a section that divides by a bandwidth
    sezione,            \* "multi", "reg", "indet" or "confronto"
    comandi,            \* the values of the section's sliders
    risultati,          \* the list risultati (line 2279) or dati (line 2350)
    aggregati,          \* mean and std (lines 2315-2317) or the regression (line 2371)
    divisioni,          \* the divisions by a bandwidth executed so far
    pc_h,               \* position of the script in the section
    \* ---- Part VI: one browser session on a page with synchronised widgets
    pagina,             \* "battimenti", "pacchetti" or "animazione"
    session_state,      \* st.session_state: a function on the keys it holds
    evento,             \* the user's action that the current script run answers
    uscita,             \* what the last script run read and rendered
    pc_s                \* "rerun": a script run is due; "fine": the page waits

varsW == <<t, inviluppo, threshold, pc_w, ris>>
varsB == <<sample_rate_beat, n_camp, potenza_beat, potenza_env, inviluppo_smooth,
           pc_b, passi, peaks_beat, esito>>
varsA == <<sample_rate, n_audio, potenza, pc_a, analisi, esito_a>>
varsE == <<sito, n_seg, arr, passi_e, pc_e>>
varsH == <<sezione, comandi, risultati, aggregati, divisioni, pc_h>>
varsS == <<pagina, session_state, evento, uscita, pc_s>>
vars == <<varsW, varsB, varsA, varsE, varsH, varsS>>
\* the variables of the other parts
FuoriW == <<varsB, varsA, varsE, varsH, varsS>>
FuoriB == <<varsW, varsA, varsE, varsH, varsS>>
FuoriA == <<varsW, varsB, varsE, varsH, varsS>>
FuoriE == <<varsW, varsB, varsA, varsH, varsS>>
FuoriH == <<varsW, varsB, varsA, varsE, varsS>>
FuoriS == <<varsW, varsB, varsA, varsE, varsH>>

(***************************************************************************)
(* Bounds of the model.                                                    *)
(***************************************************************************)
\* longest grid
MaxN == 46
\* grids of every length 1..ShortN are explored, and the two longest ones
ShortN == 22
\* largest grid step
MaxStep == 2
\* largest spacing of the side-lobe dips
MaxPeriod == 12
\* longest short recording, in samples
MaxCamp == 50
\* largest number of tones of an audio spectrum
MaxToni == 7
\* how many lengths above the shortest one each envelope pipeline is run with
MaxExtra == 12
\* largest number of non-zero bins of a carrier spectrum
MaxPicchi == 3
\* largest number of non-zero samples of a smoothed envelope
MaxGobbe == 2
\* most trials of a sweep
MaxProve == 5
\* samples of the grid x of a packet of the sweeps (10000 in the source): the
\* packets of the model are those whose first zero lies beyond the 10 samples
\* that the estimator skips around the peak, as every packet's does on the
\* 7 mm grid of the source
PuntiGriglia == 201
\* leakage of a tone into the bin next to its own, in percent, and how far it reaches
Dispersione == 15
CodaLobo == 20

(***************************************************************************)
(* Program constants.                                                      *)
(***************************************************************************)
\* 1e-10 of line 338, in units of 1e-11
Floor == 10
\* range(idx_centro - 10, ...) and range(idx_centro + 10, ...): the margin around the peak
PeakMargin == 10
\* range(..., 10, -1): the (exclusive) stop of the left search
LeftStop == 10
\* range(..., len(env_norm) - 10): the right search stops before len - 10
RightStop == 10
\* threshold=0.05, in hundredths
DefaultThreshold == 5
\* half_max = 0.5 is 1/2: env_norm > 0.5 iff 2 * inviluppo[i] > max_env
HalfDen == 2

None == -1

len(f) == Cardinality(DOMAIN f)

SetMax(S) == CHOOSE x \in S : \A y \in S : y <= x
SetMin(S) == CHOOSE x \in S : \A y \in S : x <= y

\* np.max(inviluppo)
np_max(a) == SetMax({a[i] : i \in DOMAIN a})

\* np.argmax(a): the first index of the maximum
np_argmax(a) == LET m == np_max(a) IN SetMin({i \in DOMAIN a : a[i] = m})

\* env_norm[i] < env_norm[j]   (same positive denominator max_env)
NormLess(a, i, j) == a[i] < a[j]

\* env_norm[i] < threshold   <=>   inviluppo[i] / max_env < th / 100
BelowThreshold(a, mx, i, th) == 100 * a[i] < th * mx

\* the comparison with a half maximum of 1.0
AboveHalf_uno(a, mx, i) == a[i] > mx

\* env_norm[i] > half_max
AboveHalf(a, mx, i) == HalfDen * a[i] > mx

\* the condition of lines 353-355 and 365-367
IsLateralMin(a, mx, i, th) ==
    /\ NormLess(a, i, i - 1)
    /\ NormLess(a, i, i + 1)
    /\ BelowThreshold(a, mx, i, th)

\* for i in range(idx_centro - 10, 10, -1): ... break     (lines 348-357)
\* the first index the loop meets that passes the test, from i downwards
CercaSinistra(a, mx, th, i) ==
    LET S == {j \in (LeftStop + 1)..i :
                 j > 0 /\ j < len(a) - 1 /\ IsLateralMin(a, mx, j, th)}
    IN  IF S = {} THEN None ELSE SetMax(S)

\* for i in range(idx_centro + 10, len(env_norm) - 10): ... break   (lines 360-369)
\* the first index the loop meets that passes the test, from i upwards
CercaDestra(a, mx, th, i) ==
    LET S == {j \in i..(len(a) - RightStop - 1) :
                 j > 0 /\ j < len(a) - 1 /\ IsLateralMin(a, mx, j, th)}
    IN  IF S = {} THEN None ELSE SetMin(S)

Abs(x) == IF x < 0 THEN -x ELSE x

\* mutant: the operands swapped and the abs forgotten
Larghezza_senza_abs(tt, sx, dx) == tt[sx] - tt[dx]
\* mutant: the distance of the indices instead of that of the coordinates
Larghezza_indici(tt, sx, dx) == Abs(dx - sx)
\* delta_x = abs(t[idx_dx] - t[idx_sx])
Larghezza(tt, sx, dx) == Abs(tt[dx] - tt[sx])

\* np.where(above_half)[0]
SopraMeta(a, mx) == {i \in DOMAIN a : AboveHalf(a, mx, i)}

\* mutant: the fallback fills in only the side whose search failed
idx_fwhm_tiene(a, mx, csx, cdx) ==
    <<IF csx # None THEN csx ELSE SetMin(SopraMeta(a, mx)),
      IF cdx # None THEN cdx ELSE SetMax(SopraMeta(a, mx))>>
\* idx_sx = np.where(above_half)[0][0]; idx_dx = np.where(above_half)[0][-1]
idx_fwhm(a, mx, csx, cdx) ==
    <<SetMin(SopraMeta(a, mx)), SetMax(SopraMeta(a, mx))>>

\* mutant: only an exactly zero maximum is treated as no signal
SottoFloor_zero(mx) == mx <= 0
\* if max_env < 1e-10
SottoFloor(mx) == mx < Floor

(***************************************************************************)
(* calcola_larghezza_temporale(t, inviluppo, threshold), lines 332-382.    *)
(* The result is the returned triple (delta_x, idx_sx, idx_dx) with, for   *)
(* the properties, the return statement taken (via), whether line 342 was  *)
(* executed (normalizzato), and what the two searches had found.           *)
(***************************************************************************)
Ritorno(dx_, sx, dx, via, norm, csx, cdx, centro) ==
    [delta_x |-> dx_, idx_sx |-> sx, idx_dx |-> dx, via |-> via,
     normalizzato |-> norm, trovato_sx |-> csx, trovato_dx |-> cdx,
     idx_centro |-> centro]

calcola_larghezza_temporale(tt, a, th) ==
    LET mx == np_max(a)
    IN  IF SottoFloor(mx)
        THEN Ritorno(0, 0, len(tt) - 1, "floor", FALSE, None, None, None)
        ELSE
          LET centro == np_argmax(a)
              csx == CercaSinistra(a, mx, th, centro - PeakMargin)
              cdx == CercaDestra(a, mx, th, centro + PeakMargin)
          IN  IF csx = None \/ cdx = None
              THEN IF SopraMeta(a, mx) # {}
                   THEN LET lr == idx_fwhm(a, mx, csx, cdx)
                        IN  Ritorno(Larghezza(tt, lr[1], lr[2]), lr[1], lr[2],
                                    "fwhm", TRUE, csx, cdx, centro)
                   ELSE Ritorno(0, 0, len(tt) - 1, "nohalf", TRUE, csx, cdx, centro)
              ELSE Ritorno(Larghezza(tt, csx, cdx), csx, cdx, "lateral", TRUE,
                           csx, cdx, centro)

(***************************************************************************)
(* Part II: section 'Riconoscimento Battimenti', lines 2913-3186.          *)
(***************************************************************************)
\* min(len(audio_data_beat), 65536)
FinestraMax == 65536
\* mask_freq = xf_beat > 50
FreqMinima == 50
\* height = np.max(potenza_filtered) * 0.15, in hundredths
AltezzaPerc == 15
\* distance = int(10 * window_size_beat / sample_rate_beat)
DistanzaHz == 10
\* mask_env = (xf_env > 0.5) & (xf_env < 30): 0.5 is 1/2
BandaMinDen == 2
BandaMax == 30
\* size = int(sample_rate_beat * 0.01) and distance = int(sample_rate_beat * 0.05), in hundredths
SmoothPerc == 1
DistanzaEnvPerc == 5

\* x[k] of a sparse array
Val(x, k) == IF k \in DOMAIN x.v THEN x.v[k] ELSE 0

\* np.max(x) of a non-empty non-negative array
np_max_sparso(x) ==
    IF DOMAIN x.v = {} THEN 0 ELSE SetMax({x.v[k] : k \in DOMAIN x.v})

\* np.argmax(x): the first index of the maximum
np_argmax_sparso(x) ==
    LET m == np_max_sparso(x)
    IN  IF m = 0 THEN SetMin((0..(x.n - 1)) \ DOMAIN x.v)
        ELSE SetMin({k \in DOMAIN x.v : x.v[k] = m})

\* the increasing array of the elements of S
RECURSIVE Ordina(_)
Ordina(S) == IF S = {} THEN <<>> ELSE LET m == SetMin(S) IN <<m>> \o Ordina(S \ {m})

Elementi(q) == {q[i] : i \in DOMAIN q}

\* fftfreq(n, 1/fs)[k] = k * fs / n
fftfreq(k, fs, n) == [num |-> k * fs, den |-> n]

\* window_size_beat = min(len(audio_data_beat), 65536)
window_size_beat(n) == IF n < FinestraMax THEN n ELSE FinestraMax

\* mask_freq[k] = xf_beat[k] > 50
mask_freq(k, fs, w) == k * fs > FreqMinima * w

\* potenza_filtered = np.where(mask_freq, potenza_beat, 0)
potenza_filtered(x, fs, w) ==
    [n |-> x.n, v |-> [k \in {j \in DOMAIN x.v : mask_freq(j, fs, w)} |-> x.v[k]]]

\* scipy _local_maxima_1d: i_ahead after the inner while loop
RECURSIVE Avanti(_, _, _)
Avanti(x, i, j) ==
    IF j < x.n - 1 /\ Val(x, j) = Val(x, i) THEN Avanti(x, i, j + 1) ELSE j

\* scipy _local_maxima_1d: the midpoints of the plateaus that rise on the left
\* and fall on the right (a zero sample is never one, the array being >= 0)
local_maxima_1d(x) ==
    {(i + Avanti(x, i, i + 1) - 1) \div 2 :
        i \in {j \in DOMAIN x.v :
                 /\ j >= 1
                 /\ j <= x.n - 2
                 /\ Val(x, j - 1) < Val(x, j)
                 /\ Val(x, Avanti(x, j, j + 1)) < Val(x, j)}}

\* the peak np.argsort puts last among cand: the highest, and among equal
\* heights the one the sort happens to put last (sp: "alto" / "basso")
Migliore(cand, x, sp) ==
    LET m == SetMax({Val(x, p) : p \in cand})
        pari == {p \in cand : Val(x, p) = m}
    IN  IF sp = "alto" THEN SetMax(pari) ELSE SetMin(pari)

\* scipy _select_by_peak_distance: by decreasing priority, a kept peak
\* removes every peak closer than distance
RECURSIVE select_by_peak_distance(_, _, _, _, _)
select_by_peak_distance(cand, tenuti, x, distance, sp) ==
    IF cand = {} THEN tenuti
    ELSE LET b == Migliore(cand, x, sp)
         IN  select_by_peak_distance({p \in cand : Abs(p - b) >= distance} \ {b},
                                     tenuti \cup {b}, x, distance, sp)

\* scipy.signal.find_peaks(x, height=h, distance=d) with h = h.num / h.den;
\* ValueError when distance < 1
find_peaks(x, h, distance, sp) ==
    IF distance < 1 THEN [errore |-> TRUE, picchi |-> <<>>]
    ELSE LET alti == {p \in local_maxima_1d(x) : Val(x, p) * h.den >= h.num}
         IN  [errore |-> FALSE,
              picchi |-> Ordina(select_by_peak_distance(alti, {}, x, distance, sp))]

\* the highest peak taken twice
top_2_doppio(picchi, x, sp) ==
    LET primo == Migliore(Elementi(picchi), x, sp) IN <<primo, primo>>

\* mutant: the first two detected peaks (lowest frequencies) instead of the two highest
top_2_primi(picchi, x, sp) == <<picchi[1], picchi[2]>>
\* sorted_peak_idx = np.argsort(potenza_beat[peaks_beat])[::-1]
\* top_2_peaks = peaks_beat[sorted_peak_idx[:2]]
top_2(picchi, x, sp) ==
    LET primo == Migliore(Elementi(picchi), x, sp)
        secondo == Migliore(Elementi(picchi) \ {primo}, x, sp)
    IN  <<primo, secondo>>

\* the 'Frequenze Rilevate' markers of the spectrum chart, lines 3004-3008:
\* x = [f1_rilevata, f2_rilevata], y = [potenza_beat[top_2_peaks[0]],
\* potenza_beat[top_2_peaks[1]]]
marcatori(f1, f2, top, x) ==
    [x |-> <<f1, f2>>, y |-> <<Val(x, top[1]), Val(x, top[2])>>]

\* lines 3060-3065: whether the else branches of the two guards on the
\* theoretical beat are taken (errore_perc = 0, T_batt_teorico = 0)
guardie_zero(f_batt_teorica) ==
    [errore_perc |-> ~(f_batt_teorica.num > 0),
     T_batt_teorico |-> ~(f_batt_teorica.num > 0)]

FreqZero == [num |-> 0, den |-> 1]

\* mutant: the band closed at 0 Hz
mask_env_larga(k, fs, n) == k * fs < BandaMax * n
\* mask_env = (xf_env > 0.5) & (xf_env < 30)
mask_env(k, fs, n) == BandaMinDen * k * fs > n /\ k * fs < BandaMax * n

potenza_env_filtered(x, fs, n) ==
    [n |-> x.n, v |-> [k \in {j \in DOMAIN x.v : mask_env(j, fs, n)} |-> x.v[k]]]

\* lines 3029-3054: the measured beat frequency, from the envelope spectrum or,
\* when the band 0.5-30 Hz is empty, from the maxima of the smoothed envelope
\* (t_beat = np.linspace(0, n / fs, n), so t_beat[i] = i * n / (fs * (n - 1)))
misura_f_batt(penv, ismooth, fs, n, sp) ==
    IF (fs * SmoothPerc) \div 100 < 1 \/ penv.n = 0
    THEN [errore |-> TRUE, f |-> FreqZero, via |-> "eccezione", passi |-> <<"hilbert">>]
    ELSE
      LET filt == potenza_env_filtered(penv, fs, n)
      IN  IF np_max_sparso(filt) > 0
          THEN [errore |-> FALSE,
                f |-> fftfreq(np_argmax_sparso(filt), fs, n),
                via |-> "fft_inviluppo",
                passi |-> <<"hilbert", "smooth", "centra", "fft_inviluppo">>]
          ELSE
            LET r == find_peaks(ismooth, FreqZero, (fs * DistanzaEnvPerc) \div 100, sp)
                m == Len(r.picchi)
            IN  IF r.errore
                THEN [errore |-> TRUE, f |-> FreqZero, via |-> "eccezione",
                      passi |-> <<"hilbert", "smooth", "centra", "fft_inviluppo">>]
                ELSE [errore |-> FALSE,
                      f |-> IF m > 1
                            THEN [num |-> fs * (n - 1) * (m - 1),
                                  den |-> (r.picchi[m] - r.picchi[1]) * n]
                            ELSE FreqZero,
                      via |-> IF m > 1 THEN "conta_picchi" ELSE "zero",
                      passi |-> <<"hilbert", "smooth", "centra", "fft_inviluppo",
                                  "find_peaks_inviluppo">>]

\* mutant: the empty-audio check never fires
audio_vuoto_mai(n) == FALSE
\* if len(audio_data_beat) == 0
audio_vuoto(n) == n = 0

EsitoVuoto(tipo) ==
    [tipo |-> tipo, calcolato |-> FALSE, top_2_peaks |-> <<>>,
     f1_rilevata |-> FreqZero, f2_rilevata |-> FreqZero,
     f_batt_teorica |-> FreqZero, f_batt_misurata |-> FreqZero, via_misura |-> "none"]

ArrayVuoto == [n |-> 0, v |-> <<>>]

(***************************************************************************)
(* Part III: the audio Spectral Analyzer, lines 2798-2812.                 *)
(***************************************************************************)
\* height=np.max(potenza)*0.1 (in percent), distance=20, top 5
AltezzaAudioPerc == 10
DistanzaAudio == 20
QuantiTop == 5

\* np.argsort(a)[::-1] on the sequence a: the positions (from 1) by
\* decreasing value; equal values in one of the two orders the sort may give
RECURSIVE argsort_inverso(_, _, _)
argsort_inverso(a, rimasti, sp) ==
    IF rimasti = {} THEN <<>>
    ELSE LET m == SetMax({a[i] : i \in rimasti})
             pari == {i \in rimasti : a[i] = m}
             b == IF sp = "alto" THEN SetMax(pari) ELSE SetMin(pari)
         IN  <<b>> \o argsort_inverso(a, rimasti \ {b}, sp)

\* the slice s[:k]
Primi(s, k) == SubSeq(s, 1, IF Len(s) < k THEN Len(s) ELSE k)

\* fancy indexing a[idx], idx a sequence of positions (from 1)
Indicizza(a, idx) == [i \in 1..Len(idx) |-> a[idx[i]]]

\* freq_peaks = xf[peaks]
freq_peaks(picchi, fs, w) == [i \in 1..Len(picchi) |-> fftfreq(picchi[i], fs, w)]

\* amp_peaks = potenza[peaks]
amp_peaks(picchi, x) == [i \in 1..Len(picchi) |-> Val(x, picchi[i])]

\* top_freqs = freq_peaks[sorted_idx[:5]]
top_freqs(fp, sorted_idx) == Indicizza(fp, Primi(sorted_idx, QuantiTop))

\* mutant: the five first amplitudes, in the order of the spectrum
top_amps_in_ordine(ap, sorted_idx) == Primi(ap, QuantiTop)
\* top_amps = amp_peaks[sorted_idx[:5]]
top_amps(ap, sorted_idx) == Indicizza(ap, Primi(sorted_idx, QuantiTop))

AnalisiVuota ==
    [xf_len |-> 0, peaks |-> <<>>, freq_peaks |-> <<>>, amp_peaks |-> <<>>,
     sorted_idx |-> <<>>, top_freqs |-> <<>>, top_amps |-> <<>>]

\* lines 2798-2812 for the spectrum x of a window of w samples
analisi_spettrale(x, fs, w, sp) ==
    LET r == find_peaks(x, [num |-> AltezzaAudioPerc * np_max_sparso(x), den |-> 100],
                        DistanzaAudio, sp)
        fp == freq_peaks(r.picchi, fs, w)
        ap == amp_peaks(r.picchi, x)
        si == argsort_inverso(ap, 1..Len(ap), sp)
    IN  [xf_len |-> w \div 2, peaks |-> r.picchi, freq_peaks |-> fp, amp_peaks |-> ap,
         sorted_idx |-> si, top_freqs |-> top_freqs(fp, si), top_amps |-> top_amps(ap, si)]

\* Part III at rest
RiposoA ==
    /\ sample_rate = 0
    /\ n_audio = 0
    /\ potenza = ArrayVuoto
    /\ pc_a = "riposo"
    /\ analisi = AnalisiVuota
    /\ esito_a = "none"

(***************************************************************************)
(* Part IV: the envelope pipelines.  An array is kept as its length n and  *)
(* the position sposta of the signal's sample 0 in it: element j of the    *)
(* array comes from sample j - sposta of the signal (reflected at the      *)
(* ends when it falls outside).                                            *)
(***************************************************************************)
\* the fraction of the length padded at each end: int(len(t) * 0.1)
PadDen == 10

Segnale(n) == [n |-> n, sposta |-> 0, analitico |-> FALSE]

\* pad_len = int(len(t) * 0.1)
pad_len(n) == n \div PadDen

\* np.pad(y, (p, p), mode='reflect')
np_pad(a, p) == [a EXCEPT !.n = a.n + 2 * p, !.sposta = a.sposta + p]

\* np.abs(signal.hilbert(y)): an array as long as y
hilbert(a) == [a EXCEPT !.analitico = TRUE]

\* an index of a Python slice on an array of n elements
IndiceSlice(i, n) ==
    IF i < 0 THEN (IF i + n < 0 THEN 0 ELSE i + n) ELSE (IF i > n THEN n ELSE i)

\* mutant: the slice [start:], the end kept
slice_aperta(a, start, stop) ==
    [a EXCEPT !.n = a.n - IndiceSlice(start, a.n), !.sposta = a.sposta - IndiceSlice(start, a.n)]
\* the Python slice a[start:stop]
slice(a, start, stop) ==
    LET i == IndiceSlice(start, a.n)
        j == IndiceSlice(stop, a.n)
    IN  [a EXCEPT !.n = IF j > i THEN j - i ELSE 0, !.sposta = a.sposta - i]

\* Part IV at rest
RiposoE ==
    /\ sito = [riga |-> 0, pad |-> FALSE, nmin |-> 0, nmax |-> 0]
    /\ n_seg = 0
    /\ arr = Segnale(0)
    /\ passi_e = <<>>
    /\ pc_e = "riposo"

(***************************************************************************)
(* Part V: the sweeps of 'Analisi Multi-Pacchetto' (lines 2273-2331) and   *)
(* 'Regressione' (lines 2342-2400).                                        *)
(*                                                                         *)
(* Numbers.  Wavelengths are in tenths of a metre; the swept lambda_max is *)
(* the rational p / q tenths.  A wavenumber span is kept as delta_k/(2 pi) *)
(* = num / den per metre, so that pi never has to be evaluated.  The grid  *)
(* x = np.linspace(-L, L, G) is kept as the integers 2*L*i - L*(G-1), in   *)
(* units of 1/(G-1) m.  The packet y of lines 2287-2289 is the sum of N    *)
(* equal cosines with wavenumbers evenly spaced over delta_k: its envelope *)
(* |hilbert(y)| is the kernel |sin(pi u)| / (pi u), u = x / x0, with the   *)
(* first zero at x0 = (N-1) * lmin * lmax / (N * (lmax - lmin)).  The sine *)
(* is evaluated by the rational approximation 16v(1-v) / (5 - 4v(1-v)) of  *)
(* sin(pi v), 0 <= v <= 1, and pi as 355/113; u is kept in thousandths     *)
(* and the envelope in units of 1e-4 (the width does not depend on the     *)
(* unit: line 342 normalises, and the maximum is far above the floor).     *)
(***************************************************************************)
\* x = np.linspace(-35, 35, 10000), threshold 0.08 (lines 2285, 2291)
SemiAmpiezzaMulti == 35
SogliaMulti == 8
\* x = np.linspace(-45, 45, 10000), threshold 0.06 (lines 2355, 2361)
SemiAmpiezzaReg == 45
SogliaReg == 6

\* np.linspace(-L, L, PuntiGriglia), in units of 1 / (PuntiGriglia - 1) m
linspace_x(L) == [i \in 0..(PuntiGriglia - 1) |-> 2 * L * i - L * (PuntiGriglia - 1)]

\* delta_k = k_max - k_min = 2 pi (1/lambda_min - 1/lambda_max), over 2 pi, per metre
delta_k(lmin, lmax) ==
    [num |-> 10 * (lmax.p - lmin * lmax.q), den |-> lmin * lmax.p]

\* the first zero of the envelope of n_onde equal components, in centimetres
\* (the envelope is the same whichever end of the band is the larger one)
PrimoZero(lmin, lmax, n_onde) ==
    ((n_onde - 1) * lmin * lmax.p * 100) \div (10 * n_onde * Abs(lmax.p - lmin * lmax.q))

\* |sin(pi u)| / (pi u) in units of 1e-4, u in thousandths
Nucleo(u) ==
    LET v == u % 1000
    IN  IF u < 1000
        THEN (((16 * (1000 - v) * 1000) \div (5000 - (4 * v * (1000 - v)) \div 1000))
                  * 1130) \div 355
        ELSE LET w == (v * (1000 - v)) \div 100
                 sen == (160000 * w) \div (50000 - 4 * w)
             IN  (sen * 113000) \div (355 * u)

\* env = np.abs(signal.hilbert(y)) on the grid xs, lines 2286-2290
\* (with k_min = k_max every component is the same cosine, of envelope 1)
inviluppo_pacchetto(xs, lmin, lmax, n_onde) ==
    IF lmax.p = lmin * lmax.q
    THEN [i \in DOMAIN xs |-> Nucleo(0)]
    ELSE LET x0 == PrimoZero(lmin, lmax, n_onde)
         IN  [i \in DOMAIN xs |->
                 Nucleo(((((Abs(xs[i]) * 100) \div (PuntiGriglia - 1)) * 1000) \div x0))]

\* delta_x * delta_k in thousandths of 4 pi
prodotto(dx, dk) == (((dx * dk.num) \div (PuntiGriglia - 1)) * 500) \div dk.den

\* errore = abs(prodotto - 4*np.pi) / (4*np.pi) * 100, in tenths of a percent
errore(prod) == Abs(prod - 1000)

Min2(a, b) == IF a <= b THEN a ELSE b
Max2(a, b) == IF a >= b THEN a ELSE b

\* st.slider(label, min_value, max_value, value, step): the values the control
\* offers.  The bounds are first put in order and then widened to hold the
\* default value.
slider(min_value, max_value, value) ==
    LET lo == Min2(min_value, max_value)
        hi == Max2(lo, max_value)
    IN  Min2(value, lo)..Max2(value, hi)

\* lambda_max = lambda_min_base + (i + 1) * delta_lambda_step, i + 1 = j
lambda_max_multi(c, j) == [p |-> c.lambda_min_base + j * c.delta_lambda_step, q |-> 1]

\* np.linspace(lambda_max_min, lambda_max_max, n_punti)[j - 1]
lambda_max_vals(c, j) ==
    [p |-> c.lambda_max_min * (c.n_punti - 1)
             + (j - 1) * (c.lambda_max_max - c.lambda_max_min),
     q |-> c.n_punti - 1]

\* the loop body with the product taken with the span of the next trial
prova_multi_altra_banda(c, j) ==
    LET lmax == lambda_max_multi(c, j)
        dk == delta_k(c.lambda_min_base, lmax)
        xs == linspace_x(SemiAmpiezzaMulti)
        env == inviluppo_pacchetto(xs, c.lambda_min_base, lmax, c.n_onde_fisso)
        r == calcola_larghezza_temporale(xs, env, SogliaMulti)
        prod == prodotto(r.delta_x, delta_k(c.lambda_min_base, lambda_max_multi(c, j + 1)))
    IN  [numero |-> j, lambda_max |-> lmax, delta_lambda |-> j * c.delta_lambda_step,
         delta_k |-> dk, delta_x |-> r.delta_x, prodotto |-> prod,
         errore |-> errore(prod)]

\* the body of the loop of lines 2280-2302: the record appended for trial j
prova_multi(c, j) ==
    LET lmax == lambda_max_multi(c, j)
        dk == delta_k(c.lambda_min_base, lmax)
        xs == linspace_x(SemiAmpiezzaMulti)
        env == inviluppo_pacchetto(xs, c.lambda_min_base, lmax, c.n_onde_fisso)
        r == calcola_larghezza_temporale(xs, env, SogliaMulti)
        prod == prodotto(r.delta_x, dk)
    IN  [numero |-> j, lambda_max |-> lmax, delta_lambda |-> j * c.delta_lambda_step,
         delta_k |-> dk, delta_x |-> r.delta_x, prodotto |-> prod,
         errore |-> errore(prod)]

\* float('inf') and float('nan')
Infinito == 1000000000
NaN == -1000000000

\* 1/delta_k, in units of 2 pi / 10 m: numpy returns inf for a zero divisor
uno_su_delta_k(dk) == IF dk.num = 0 THEN Infinito ELSE (dk.den * 10) \div dk.num

\* the body of the loop of lines 2351-2368: the record appended for trial j
prova_reg(c, j) ==
    LET lmax == lambda_max_vals(c, j)
        dk == delta_k(c.lambda_min_reg, lmax)
        xs == linspace_x(SemiAmpiezzaReg)
        env == inviluppo_pacchetto(xs, c.lambda_min_reg, lmax, c.n_onde_reg)
        r == calcola_larghezza_temporale(xs, env, SogliaReg)
    IN  [lambda_max |-> lmax, delta_k |-> dk, inverso |-> uno_su_delta_k(dk),
         delta_x |-> r.delta_x, prodotto |-> prodotto(r.delta_x, dk)]

(***************************************************************************)
(* The aggregates.  pandas and scipy compute them in binary floating       *)
(* point, where every operation rounds its result to a fixed number of     *)
(* significant bits (53); the model rounds to Mantissa bits, to nearest    *)
(* and ties to even, and adds the terms of a sum one after the other in    *)
(* the order of the series, as the summation loop does for fewer than 8    *)
(* terms.  Every operator takes the number m of significant bits, so that  *)
(* the same computation can be made without rounding (m = Esatta: no       *)
(* number of the model has more bits).                                     *)
(***************************************************************************)
Mantissa == 8
Esatta == 30

RECURSIVE Pot2(_)
Pot2(n) == IF n = 0 THEN 1 ELSE 2 * Pot2(n - 1)

\* the spacing of the floating-point numbers of m bits around x >= 0
RECURSIVE Ulp(_, _)
Ulp(m, x) == IF x < Pot2(m) THEN 1 ELSE 2 * Ulp(m, x \div 2)

\* x >= 0 rounded to m significant bits
Arrotonda(m, x) ==
    LET u == Ulp(m, x)
        q == x \div u
        r == x % u
    IN  IF 2 * r > u \/ (2 * r = u /\ q % 2 = 1) THEN (q + 1) * u ELSE q * u

Fl(m, x) == IF x < 0 THEN 0 - Arrotonda(m, 0 - x) ELSE Arrotonda(m, x)

\* a / b rounded, b > 0
Dividi(m, a, b) ==
    IF a < 0 THEN 0 - Fl(m, (2 * (0 - a) + b) \div (2 * b))
    ELSE Fl(m, (2 * a + b) \div (2 * b))

\* the sum of the sequence v, accumulated from its first term to its last
RECURSIVE Somma(_, _)
Somma(m, v) ==
    IF Len(v) = 0 THEN 0
    ELSE Fl(m, Somma(m, SubSeq(v, 1, Len(v) - 1)) + v[Len(v)])

\* mutant: the last record is left out of the sum
media_senza_ultimo(m, v) == Dividi(m, Somma(m, SubSeq(v, 1, Len(v) - 1)), Len(v))
\* Series.mean()
media(m, v) == Dividi(m, Somma(m, v), Len(v))

\* the mean of the products of the deviations of v and w from their means
covarianza(m, v, w, ddof) ==
    LET mv == media(m, v)
        mw == media(m, w)
    IN  Dividi(m, Somma(m, [i \in 1..Len(v) |-> Fl(m, (v[i] - mv) * (w[i] - mw))]),
               Len(v) - ddof)

\* the integer part of the square root
Radice(x) == CHOOSE r \in 0..Min2(x, 46340) : r * r <= x /\ x < (r + 1) * (r + 1)

\* Series.std(): the square root of the variance with ddof = 1
std(m, v) == Radice(covarianza(m, v, v, 1))

\* df["..."] : the column of a field of the series
colonna_prodotto(serie) == [i \in 1..Len(serie) |-> serie[i].prodotto]
colonna_inverso(serie) == [i \in 1..Len(serie) |-> serie[i].inverso]
\* the widths, in decimetres
colonna_delta_x(serie) ==
    [i \in 1..Len(serie) |-> (serie[i].delta_x * 10) \div (PuntiGriglia - 1)]

\* lines 2315-2317: df['dx dk'].mean() and df['dx dk'].std()
aggrega_multi(m, serie) ==
    [media |-> media(m, colonna_prodotto(serie)),
     std |-> std(m, colonna_prodotto(serie))]

\* linregress(x, y): slope = ssxym / ssxm, intercept = ymean - slope * xmean,
\* r = ssxym / sqrt(ssxm * ssym) (0 when a variance is 0), with the slope and
\* r ** 2 in thousandths; r ** 2 is evaluated as (ssxym / ssxm) * (ssxym / ssym).
\* An infinite x makes every result nan.
linregress(m, x, y) ==
    IF \E i \in 1..Len(x) : x[i] = Infinito
    THEN [slope |-> NaN, intercept |-> NaN, r2 |-> NaN]
    ELSE LET ssxm == covarianza(m, x, x, 0)
             ssxym == covarianza(m, x, y, 0)
             ssym == covarianza(m, y, y, 0)
             slope == IF ssxm = 0 THEN NaN ELSE Dividi(m, ssxym * 1000, ssxm)
         IN  IF ssxm = 0
             THEN [slope |-> NaN, intercept |-> NaN, r2 |-> NaN]
             ELSE [slope |-> slope,
                   intercept |-> Fl(m, media(m, y) - Dividi(m, slope * media(m, x), 1000)),
                   r2 |-> IF ssym = 0 THEN 0
                          ELSE Dividi(m, slope * Dividi(m, ssxym * 1000, ssym), 1000)]

\* line 2371: linregress(df["1/dk"], df["dx"])
aggrega_reg(m, serie) == linregress(m, colonna_inverso(serie), colonna_delta_x(serie))

\* mutant: the record is put in front of the list
appendi_in_testa(serie, rec) == <<rec>> \o serie
\* risultati.append(...) and dati.append(...)
appendi(serie, rec) == Append(serie, rec)

\* V_SUONO = 340, line 13
V_SUONO == 340

\* A division by a bandwidth: the line that makes it, whether it is made under
\* a guard on the divisor, and the sign of the divisor.
Divisione(riga, guardia, divisore) ==
    [riga |-> riga, guardia |-> guardia, zero |-> divisore = 0]

\* lines 1972-1983 and 2052-2055, from delta_f = f_max - f_min (delta_k and
\* delta_omega are delta_f times a positive constant): the divisions executed
divisioni_indet(f_min, f_max, n_onde) ==
    LET delta_f == f_max - f_min
    IN  (IF delta_f > 0 THEN <<Divisione(1978, TRUE, delta_f)>> ELSE <<>>)
        \o (IF delta_f > 0 THEN <<Divisione(1983, TRUE, delta_f)>> ELSE <<>>)
        \o (IF n_onde > 1 /\ delta_f > 0 THEN <<Divisione(2053, TRUE, delta_f)>> ELSE <<>>)

\* delta_x_teorico = 4 * np.pi / delta_k if delta_k > 0 else 0, as 2 V / delta_f
delta_x_teorico(f_min, f_max) ==
    IF f_max - f_min > 0
    THEN [num |-> 2 * V_SUONO, den |-> f_max - f_min]
    ELSE [num |-> 0, den |-> 1]

\* T_ripetizione, lines 2052-2055, in tenths of a second
T_ripetizione(f_min, f_max, n_onde, durata) ==
    IF n_onde > 1 /\ f_max - f_min > 0
    THEN [num |-> 10 * (n_onde - 1), den |-> f_max - f_min]
    ELSE [num |-> durata * 10, den |-> 1]

RiposoH ==
    /\ sezione = "nessuna"
    /\ comandi = <<>>
    /\ risultati = <<>>
    /\ aggregati = <<>>
    /\ divisioni = <<>>
    /\ pc_h = "fermo"

(***************************************************************************)
(* Part VI: st.session_state across the script runs of a page.  The state  *)
(* is a function on the keys it holds: `key in st.session_state` is        *)
(* membership in its domain, an assignment adds or replaces a key and del  *)
(* removes one.  Frequencies and amplitudes are in tenths (440.0 Hz is     *)
(* 4400).  A widget with a key shows and returns the value its key holds;  *)
(* when the user changes it, the new value is stored under the key and the *)
(* on_change callback runs, both before the script runs again.             *)
(***************************************************************************)
\* st.session_state[k] = v
assegna(ss, k, v) == [j \in DOMAIN ss \cup {k} |-> IF j = k THEN v ELSE ss[j]]

\* del st.session_state[k]
del(ss, k) == [j \in DOMAIN ss \ {k} |-> ss[j]]

\* if k not in st.session_state: st.session_state[k] = v
inizializza(ss, k, v) == IF k \in DOMAIN ss THEN ss ELSE assegna(ss, k, v)

\* st.session_state.get(k, v)
get(ss, k, v) == IF k \in DOMAIN ss THEN ss[k] ELSE v

\* lines 26-56 (durata and descrizione are not read by the widgets)
PRESET_FAMOSI ==
    ("Personalizzato" :> <<>>)
    @@ ("Diapason Standard LA 440 Hz" :> [f1 |-> 4400, f2 |-> 4450, A1 |-> 10, A2 |-> 10])
    @@ ("Diapason Giuseppe Verdi LA 432 Hz" :> [f1 |-> 4320, f2 |-> 4370, A1 |-> 10, A2 |-> 10])
    @@ ("Esperimento Helmholtz (1863)" :> [f1 |-> 2560, f2 |-> 2610, A1 |-> 10, A2 |-> 10])
    @@ ("Esperimento Heisenberg (1927)" :> [f1 |-> 10000, f2 |-> 11000, A1 |-> 10, A2 |-> 10])
    @@ ("Frequenza Radio AM (esempio)" :> [f1 |-> 8000, f2 |-> 8100, A1 |-> 10, A2 |-> 10])
    @@ ("Battimenti Musicali Lenti" :> [f1 |-> 4400, f2 |-> 4420, A1 |-> 10, A2 |-> 10])
    @@ ("Battimenti Rapidi (interferenza)" :> [f1 |-> 10000, f2 |-> 10200, A1 |-> 10, A2 |-> 10])

\* for param in ['f1', 'f2', 'A1', 'A2']
ParametriBatt == <<"f1", "f2", "A1", "A2">>

\* the defaults of lines 921-924
DefaultBatt == [f1 |-> 4400, f2 |-> 4450, A1 |-> 10, A2 |-> 10]

\* the ranges of the widgets of lines 968-1011
RangeBatt == [f1 |-> 10..20000, f2 |-> 10..20000, A1 |-> 5..20, A2 |-> 5..20]

\* the assignments of lines 937-940 with the deletions of lines 942-944
\* left out
applica_preset_senza_del(ss) ==
    IF ss["preset_batt_k"] # "Personalizzato"
    THEN LET p == PRESET_FAMOSI[ss["preset_batt_k"]]
         IN  assegna(assegna(assegna(assegna(ss, "f1", p.f1), "f2", p.f2),
                             "A1", p.A1), "A2", p.A2)
    ELSE ss

\* applica_preset(), lines 934-944
applica_preset(ss) ==
    IF ss["preset_batt_k"] # "Personalizzato"
    THEN LET p == PRESET_FAMOSI[ss["preset_batt_k"]]
             s1 == assegna(assegna(assegna(assegna(ss, "f1", p.f1), "f2", p.f2),
                                   "A1", p.A1), "A2", p.A2)
         IN  [j \in DOMAIN s1 \ ({k \o "_slider" : k \in Elementi(ParametriBatt)}
                               \cup {k \o "_input" : k \in Elementi(ParametriBatt)})
                 |-> s1[j]]
    ELSE ss

\* "_slider" in widget_key
e_slider(widget_key) == widget_key \in {k \o "_slider" : k \in Elementi(ParametriBatt)}

\* "_input" in widget_key
e_input(widget_key) == widget_key \in {k \o "_input" : k \in Elementi(ParametriBatt)}

\* widget_key.replace("_slider", "_input") and widget_key.replace("_input", "_slider")
replace(widget_key, da, a) ==
    LET P == {k \in Elementi(ParametriBatt) : widget_key = k \o da}
    IN  IF P = {} THEN widget_key ELSE (CHOOSE k \in P : TRUE) \o a

\* set_custom without its step 2
set_custom_senza_sync(ss, param, widget_key) ==
    assegna(assegna(ss, param, ss[widget_key]), "preset_batt_k", "Personalizzato")

\* set_custom(param, widget_key), lines 946-959
set_custom(ss, param, widget_key) ==
    LET val == ss[widget_key]
        s1 == assegna(ss, param, val)
        s2 == IF e_slider(widget_key)
              THEN assegna(s1, replace(widget_key, "_slider", "_input"), val)
              ELSE IF e_input(widget_key)
                   THEN assegna(s1, replace(widget_key, "_input", "_slider"), val)
                   ELSE s1
    IN  assegna(s2, "preset_batt_k", "Personalizzato")

\* lines 921-931: the parameters and the widget keys that are missing
RECURSIVE inizializza_widget(_, _)
inizializza_widget(ss, i) ==
    IF i > Len(ParametriBatt) THEN ss
    ELSE LET param == ParametriBatt[i]
             s1 == inizializza(ss, param \o "_slider", ss[param])
             s2 == inizializza(s1, param \o "_input", s1[param])
         IN  inizializza_widget(s2, i + 1)

\* one run of the section 'Battimenti', lines 921-1018: the session state it
\* leaves (the selectbox, new, takes its first option) and the values read
\* at lines 1014-1017
script_battimenti(ss) ==
    LET s0 == inizializza(inizializza(inizializza(inizializza(ss,
                  "f1", DefaultBatt.f1), "f2", DefaultBatt.f2),
                  "A1", DefaultBatt.A1), "A2", DefaultBatt.A2)
        s1 == inizializza_widget(s0, 1)
        s2 == inizializza(s1, "preset_batt_k", "Personalizzato")
    IN  [stato |-> s2,
         uscita |-> [f1 |-> s2["f1"], f2 |-> s2["f2"], A1 |-> s2["A1"], A2 |-> s2["A2"]]]

\* "fmin" in key_from or "fmax" in key_from
chiave_di_frequenza(key_from) ==
    key_from \in {"pkt_fmin_s", "pkt_fmin_i", "pkt_fmax_s", "pkt_fmax_i"}

\* update_pkt_widget(key_from, key_to), lines 1344-1356
update_pkt_widget(ss, key_from, key_to) ==
    LET s1 == assegna(ss, key_to, ss[key_from])
    IN  IF chiave_di_frequenza(key_from) /\ s1["pkt_fmax_s"] <= s1["pkt_fmin_s"]
        THEN LET new_max == s1["pkt_fmin_s"] + 50
             IN  assegna(assegna(s1, "pkt_fmax_s", new_max), "pkt_fmax_i", new_max)
        ELSE s1

\* one run of the custom mode of 'Pacchetti d'Onda', lines 1336-1383: the
\* keys that are missing, the correction made before the f_max widgets are
\* drawn, and the values the widgets return
script_pacchetti(ss) ==
    LET s0 == inizializza(inizializza(inizializza(inizializza(inizializza(inizializza(
                  inizializza(ss, "preset_pkt_main", "Personalizzato"),
                  "pkt_fmin_s", 1000), "pkt_fmin_i", 1000),
                  "pkt_fmax_s", 1300), "pkt_fmax_i", 1300),
                  "pkt_n_s", 50), "pkt_n_i", 50)
        f_min == s0["pkt_fmin_i"]
        min_fmax == f_min + 10
        s1 == IF s0["pkt_fmax_s"] < min_fmax
              THEN assegna(assegna(s0, "pkt_fmax_s", min_fmax), "pkt_fmax_i", min_fmax)
              ELSE s0
    IN  [stato |-> s1,
         uscita |-> [f_min |-> f_min, f_max |-> s1["pkt_fmax_i"],
                     n_onde |-> s1["pkt_n_i"], min_fmax |-> min_fmax]]

\* the controls of 'Animazione Propagazione' common to the three kinds of
\* wave (lines 2511, 2525-2527), with their defaults; durations in tenths
DefaultAnim ==
    ("tipo_anim" :> "Pacchetto d'onda") @@ ("anim_lung" :> 20)
    @@ ("anim_dur" :> 15) @@ ("anim_frames" :> 50)

\* one run of the section with the flag never stored
script_animazione_senza_flag(ss, clic) ==
    LET s0 == [k \in DOMAIN ss \cup DOMAIN DefaultAnim |->
                  IF k \in DOMAIN ss THEN ss[k] ELSE DefaultAnim[k]]
    IN  [stato |-> s0,
         uscita |-> [mostra |-> IF clic THEN "animazione" ELSE "info",
                     tipo |-> s0["tipo_anim"], lunghezza |-> s0["anim_lung"],
                     durata |-> s0["anim_dur"], n_frame |-> s0["anim_frames"]]]

\* one run of the section 'Animazione Propagazione', lines 2496-2674; clic
\* is what st.button("Genera Animazione") returns in this run
script_animazione(ss, clic) ==
    LET s0 == [k \in DOMAIN ss \cup DOMAIN DefaultAnim |->
                  IF k \in DOMAIN ss THEN ss[k] ELSE DefaultAnim[k]]
        s1 == IF clic THEN assegna(s0, "anim_ready", TRUE) ELSE s0
    IN  [stato |-> s1,
         uscita |-> [mostra |-> IF get(s1, "anim_ready", FALSE)
                                THEN "animazione" ELSE "info",
                     tipo |-> s1["tipo_anim"], lunghezza |-> s1["anim_lung"],
                     durata |-> s1["anim_dur"], n_frame |-> s1["anim_frames"]]]

RiposoS ==
    /\ pagina = "nessuna"
    /\ session_state = <<>>
    /\ evento = [tipo |-> "nessuno", chiave |-> ""]
    /\ uscita = <<>>
    /\ pc_s = "fermo"

(***************************************************************************)
(* Inputs of Part I: the grids and envelopes the call is made with.        *)
(***************************************************************************)
Lengths == (1..ShortN) \cup {MaxN}

\* a uniform, strictly increasing grid of n samples around 0 (np.linspace)
Griglia(n, step) == [i \in 0..(n - 1) |-> step * (2 * i - n)]

\* sample values: the central maximum, a level below / above half maximum,
\* a dip just below / exactly at 5% of the maximum
Picco == 400
Basi == {120, 240}
Buche == {19, 20}

\* envelope with value Picco at c, v at the indices of S and b elsewhere
Forma(n, c, b, S, v) ==
    [i \in 0..(n - 1) |-> IF i = c THEN Picco ELSE IF i \in S THEN v ELSE b]

\* at most one dip on each side of the maximum, anywhere
Lati(n, c) ==
    {{}} \cup {{l} : l \in 0..(c - 1)} \cup {{r} : r \in (c + 1)..(n - 1)}
         \cup {{l, r} : l \in 0..(c - 1), r \in (c + 1)..(n - 1)}

\* side lobes: a dip every p samples on both sides of c (the zeros of a sinc
\* envelope); with alt the odd-numbered dips stay at the threshold
Pettine(n, c, p, alt) ==
    [i \in 0..(n - 1) |->
        IF i = c THEN Picco
        ELSE IF (i - c) % p = 0
             THEN (IF alt /\ ((Abs(i - c) \div p) % 2 = 1) THEN 20 ELSE 19)
             ELSE 120]

\* faint envelopes around the floor: maximum m at c, level b elsewhere
Debole(n, c, m, b) == [i \in 0..(n - 1) |-> IF i = c THEN m ELSE b]

\* Part II at rest (another section of the app is shown)
RiposoB ==
    /\ sample_rate_beat = 0
    /\ n_camp = 0
    /\ potenza_beat = ArrayVuoto
    /\ potenza_env = ArrayVuoto
    /\ inviluppo_smooth = ArrayVuoto
    /\ pc_b = "riposo"
    /\ passi = <<>>
    /\ peaks_beat = <<>>
    /\ esito = EsitoVuoto("none")

InitW ==
    /\ RiposoB
    /\ RiposoA
    /\ RiposoE
    /\ RiposoH
    /\ RiposoS
    /\ pc_w = "call"
    /\ ris = [via |-> "none"]
    /\ threshold = DefaultThreshold
    /\ \E n \in Lengths :
         \/ /\ t = Griglia(n, MaxStep)
            /\ \E c \in 0..(n - 1), b \in Basi, v \in Buche :
                 \E S \in Lati(n, c) : inviluppo = Forma(n, c, b, S, v)
         \/ \E step \in 1..MaxStep :
              /\ t = Griglia(n, step)
              /\ \E c \in 0..(n - 1) :
                   \/ \E p \in 2..MaxPeriod, alt \in BOOLEAN :
                        inviluppo = Pettine(n, c, p, alt)
                   \/ \E m \in {0, Floor - 1, Floor}, b \in {0, 3, Floor - 1, Floor} :
                        b <= m /\ inviluppo = Debole(n, c, m, b)
                   \/ \E j \in 0..(n - 1), b \in Basi :
                        inviluppo = Forma(n, c, b, {j}, Picco)

Chiama ==
    /\ pc_w = "call"
    /\ ris' = calcola_larghezza_temporale(t, inviluppo, threshold)
    /\ pc_w' = "ret"
    /\ UNCHANGED <<t, inviluppo, threshold>>
    /\ UNCHANGED FuoriW

NextW == Chiama

SpecWidth == InitW /\ [][NextW]_vars

(***************************************************************************)
(* Inputs of Part II: the decoded audio, through its length, its sampling  *)
(* rate and the spectra the FFTs of lines 2966 and 3034 give for it.       *)
(***************************************************************************)
\* sampling rate of the short recordings of the model (Hz)
FsCorta == 150
\* SAMPLE_RATE, and the two tones of the download centre's beat (440 / 444 Hz)
SAMPLE_RATE == 44100
F1Prova == 440
F2Prova == 444
\* spectral amplitudes: 1 is below 15% of 7 (not of 6), the others are above
Ampiezze == {1, 2, 6, 7}
\* amplitude of a low-frequency hum
Ronzio == 9

\* Part I at rest
RiposoW ==
    /\ t = <<>>
    /\ inviluppo = <<>>
    /\ threshold = DefaultThreshold
    /\ pc_w = "riposo"
    /\ ris = [via |-> "none"]

\* the subsets of S with at most k elements
RECURSIVE Sottoinsiemi(_, _)
Sottoinsiemi(S, k) ==
    IF k = 0 THEN {{}}
    ELSE LET meno == Sottoinsiemi(S, k - 1)
         IN  meno \cup {T \cup {x} : T \in meno, x \in S}

\* the bins of a spectrum of nb bins above / not above 50 Hz
BinAlti(nb, fs, w) == {k \in 0..(nb - 1) : mask_freq(k, fs, w)}
BinBassi(nb, fs, w) == {k \in 0..(nb - 1) : ~mask_freq(k, fs, w)}

\* carrier spectra: at most quanti non-zero bins above 50 Hz, with or
\* without a hum in the last bin not above 50 Hz
SpettriPortante(nb, fs, w, quanti) ==
    LET alti == BinAlti(nb, fs, w)
        bassi == BinBassi(nb, fs, w) \ {0}
        ronzii == {<<>>} \cup {h :> Ronzio : h \in {k \in bassi : k = SetMax(bassi)}}
    IN  {[n |-> nb, v |-> f @@ r] :
            f \in UNION {[S -> Ampiezze] :
                           S \in Sottoinsiemi(alti, quanti)},
            r \in ronzii}

\* envelope spectra: at most two non-zero bins among the lowest ones
SpettriInviluppo(nb) ==
    {[n |-> nb, v |-> f] :
        f \in UNION {[S -> {1, 7}] :
                       S \in Sottoinsiemi(0..(IF nb < 8 THEN nb - 1 ELSE 7), 2)}}

\* smoothed envelopes: at most MaxGobbe non-zero samples
Inviluppi(n) ==
    {[n |-> n, v |-> [i \in S |-> 5]] :
        S \in Sottoinsiemi({i \in 0..(n - 1) : i % 3 # 1}, MaxGobbe)}

\* the spectrum of two tones f1, f2 of amplitudes a1, a2: a main lobe in the
\* bin nearest to each tone and a leakage skirt decaying as 1/distance
BinVicino(f, fs, w) == (2 * f * w + fs) \div (2 * fs)
Lobo(a, k, p) == IF k = p THEN 100 * a ELSE (Dispersione * a) \div Abs(k - p)
SpettroDueToni(nb, fs, w, f1, f2, a1, a2) ==
    LET p1 == BinVicino(f1, fs, w)
        p2 == BinVicino(f2, fs, w)
        bins == {k \in (p1 - CodaLobo)..(p2 + CodaLobo) : k >= 0 /\ k < nb}
    IN  [n |-> nb,
         v |-> [k \in {j \in bins : Lobo(a1, j, p1) + Lobo(a2, j, p2) > 0} |->
                   Lobo(a1, k, p1) + Lobo(a2, k, p2)]]

InitB ==
    /\ RiposoW
    /\ RiposoA
    /\ RiposoE
    /\ RiposoH
    /\ RiposoS
    /\ pc_b = "lettura"
    /\ passi = <<>>
    /\ peaks_beat = <<>>
    /\ esito = EsitoVuoto("none")
    /\ \/ \* short recordings of every length, any carrier spectrum
          /\ sample_rate_beat = FsCorta
          /\ \/ /\ n_camp \in 0..MaxCamp
                /\ potenza_beat \in
                      SpettriPortante(window_size_beat(n_camp) \div 2, sample_rate_beat,
                                      window_size_beat(n_camp), 2)
             \/ /\ n_camp = MaxCamp
                /\ potenza_beat \in
                      SpettriPortante(window_size_beat(n_camp) \div 2, sample_rate_beat,
                                      window_size_beat(n_camp), MaxPicchi)
          /\ potenza_env = [n |-> n_camp \div 2,
                            v |-> IF n_camp \div 2 > 1 THEN (1 :> 7) ELSE <<>>]
          /\ inviluppo_smooth = [n |-> n_camp, v |-> <<>>]
       \/ \* two carriers, any envelope
          /\ sample_rate_beat = FsCorta
          /\ n_camp = MaxCamp
          /\ potenza_beat = [n |-> n_camp \div 2, v |-> (18 :> 7 @@ 22 :> 6)]
          /\ \/ /\ potenza_env \in SpettriInviluppo(n_camp \div 2)
                /\ inviluppo_smooth = [n |-> n_camp, v |-> <<>>]
             \/ /\ potenza_env \in {[n |-> n_camp \div 2, v |-> f] :
                                       f \in {<<>>, 0 :> 7, 10 :> 7}}
                /\ inviluppo_smooth \in Inviluppi(n_camp)
       \/ \* the synthetic beat 440 / 444 Hz at 44100 Hz, 2 s or longer
          /\ sample_rate_beat = SAMPLE_RATE
          /\ n_camp \in {2 * SAMPLE_RATE, 3 * SAMPLE_RATE}
          /\ \E a1 \in {6, 7}, a2 \in {6, 7} :
                potenza_beat =
                    SpettroDueToni(window_size_beat(n_camp) \div 2, sample_rate_beat,
                                   window_size_beat(n_camp), F1Prova, F2Prova, a1, a2)
          /\ potenza_env =
                [n |-> n_camp \div 2,
                 v |-> (((F2Prova - F1Prova) * n_camp) \div sample_rate_beat) :> 7]
          /\ inviluppo_smooth = [n |-> n_camp, v |-> <<>>]

(***************************************************************************)
(* The script of the section, lines 2924-3186.                             *)
(***************************************************************************)
\* lines 2924-2939: read the audio; an empty array is reported and st.stop()
\* ends the run (StopException is not an Exception: line 3183 does not catch it)
VerificaVuoto ==
    /\ pc_b = "lettura"
    /\ IF audio_vuoto(n_camp)
       THEN /\ passi' = <<"lettura", "errore_vuoto", "stop">>
            /\ esito' = EsitoVuoto("audio_vuoto")
            /\ pc_b' = "fine"
       ELSE /\ passi' = <<"lettura">>
            /\ esito' = esito
            /\ pc_b' = "normalizza"
    /\ UNCHANGED <<sample_rate_beat, n_camp, potenza_beat, potenza_env,
                   inviluppo_smooth, peaks_beat>>
    /\ UNCHANGED FuoriB

\* lines 2942-2948: np.max(np.abs(...)) raises ValueError on an empty array
Normalizza ==
    /\ pc_b = "normalizza"
    /\ passi' = Append(passi, "normalizza")
    /\ pc_b' = IF n_camp = 0 THEN "eccezione" ELSE "fft"
    /\ UNCHANGED <<sample_rate_beat, n_camp, potenza_beat, potenza_env,
                   inviluppo_smooth, peaks_beat, esito>>
    /\ UNCHANGED FuoriB

\* lines 2964-2977: spectrum of the window, mask above 50 Hz, find_peaks;
\* np.max raises ValueError on an empty spectrum, find_peaks on distance < 1
AnalisiFFT ==
    /\ pc_b = "fft"
    /\ passi' = passi \o <<"fft", "find_peaks">>
    /\ LET w == window_size_beat(n_camp)
           filt == potenza_filtered(potenza_beat, sample_rate_beat, w)
       IN  IF w \div 2 = 0
           THEN pc_b' = "eccezione" /\ peaks_beat' = peaks_beat
           ELSE \E sp \in {"alto", "basso"} :
                  LET r == find_peaks(filt,
                                      [num |-> AltezzaPerc * np_max_sparso(filt), den |-> 100],
                                      (DistanzaHz * w) \div sample_rate_beat, sp)
                  IN  IF r.errore
                      THEN pc_b' = "eccezione" /\ peaks_beat' = peaks_beat
                      ELSE pc_b' = "esito" /\ peaks_beat' = r.picchi
    /\ UNCHANGED <<sample_rate_beat, n_camp, potenza_beat, potenza_env,
                   inviluppo_smooth, esito>>
    /\ UNCHANGED FuoriB

\* lines 2979-3175: two or more peaks
DueToni ==
    /\ pc_b = "esito"
    /\ Len(peaks_beat) >= 2
    /\ \E sp \in {"alto", "basso"} :
         LET w == window_size_beat(n_camp)
             top == top_2(peaks_beat, potenza_beat, sp)
             lo == IF top[1] < top[2] THEN top[1] ELSE top[2]
             hi == IF top[1] < top[2] THEN top[2] ELSE top[1]
             mis == misura_f_batt(potenza_env, inviluppo_smooth, sample_rate_beat,
                                  n_camp, sp)
         IN  IF mis.errore
             THEN /\ pc_b' = "eccezione"
                  /\ passi' = passi \o <<"top_2">> \o mis.passi
                  /\ esito' = esito
             ELSE /\ pc_b' = "fine"
                  /\ passi' = passi \o <<"top_2">> \o mis.passi \o <<"confronto">>
                  /\ esito' =
                        [tipo |-> "due_toni", calcolato |-> TRUE, top_2_peaks |-> top,
                         f1_rilevata |-> fftfreq(lo, sample_rate_beat, w),
                         f2_rilevata |-> fftfreq(hi, sample_rate_beat, w),
                         f_batt_teorica |->
                            [num |-> Abs(hi * sample_rate_beat - lo * sample_rate_beat),
                             den |-> w],
                         f_batt_misurata |-> mis.f, via_misura |-> mis.via,
                         marcatori |->
                            marcatori(fftfreq(lo, sample_rate_beat, w),
                                      fftfreq(hi, sample_rate_beat, w),
                                      top, potenza_beat),
                         guardie |->
                            guardie_zero(
                               [num |-> Abs(hi * sample_rate_beat - lo * sample_rate_beat),
                                den |-> w])]
    /\ UNCHANGED <<sample_rate_beat, n_camp, potenza_beat, potenza_env,
                   inviluppo_smooth, peaks_beat>>
    /\ UNCHANGED FuoriB

\* lines 3177-3179: exactly one peak
UnaSola ==
    /\ pc_b = "esito"
    /\ Len(peaks_beat) = 1
    /\ pc_b' = "fine"
    /\ esito' = EsitoVuoto("una_sola_frequenza")
    /\ UNCHANGED <<sample_rate_beat, n_camp, potenza_beat, potenza_env,
                   inviluppo_smooth, peaks_beat, passi>>
    /\ UNCHANGED FuoriB

\* lines 3180-3181: no peak
Nessuna ==
    /\ pc_b = "esito"
    /\ Len(peaks_beat) = 0
    /\ pc_b' = "fine"
    /\ esito' = EsitoVuoto("nessuna_frequenza")
    /\ UNCHANGED <<sample_rate_beat, n_camp, potenza_beat, potenza_env,
                   inviluppo_smooth, peaks_beat, passi>>
    /\ UNCHANGED FuoriB

\* lines 3183-3186: except Exception -> "Errore durante l'analisi"
Eccezione ==
    /\ pc_b = "eccezione"
    /\ pc_b' = "fine"
    /\ esito' = EsitoVuoto("errore_analisi")
    /\ UNCHANGED <<sample_rate_beat, n_camp, potenza_beat, potenza_env,
                   inviluppo_smooth, peaks_beat, passi>>
    /\ UNCHANGED FuoriB

NextB ==
    \/ VerificaVuoto
    \/ Normalizza
    \/ AnalisiFFT
    \/ DueToni
    \/ UnaSola
    \/ Nessuna
    \/ Eccezione

SpecBeat == InitB /\ [][NextB]_vars

(***************************************************************************)
(* Inputs of Part III: the decoded audio, through its length and the       *)
(* spectrum the FFT of line 2800 gives for its window.                     *)
(***************************************************************************)
\* the bin of the i-th tone, 20 bins from the next, and a bin 5 bins from the first
BinTono(i) == 10 + DistanzaAudio * i
BinVicinoAlPrimo == 15
\* bins of the spectra with tones, and the length of an audio that gives them
NBinAudio == DistanzaAudio * MaxToni + 10
\* a recording longer than the 65536-sample window
AudioLungo == 70000

\* a tone is absent (0), weak (1: a different amplitude each) or loud (2: the same for all)
LivelloTono(i, l) == IF l = 0 THEN 0 ELSE IF l = 1 THEN 2 + i ELSE 30
\* amplitude of the bin 5 bins from the first tone, when present
Disturbo == 25

SpettriAudio(nb) ==
    {LET g == [k \in {BinTono(i) : i \in 0..(MaxToni - 1)} \cup {BinVicinoAlPrimo} |->
                  IF k = BinVicinoAlPrimo THEN c
                  ELSE LivelloTono((k - 10) \div DistanzaAudio,
                                   l[(k - 10) \div DistanzaAudio])]
     IN  [n |-> nb, v |-> [k \in {j \in DOMAIN g : g[j] > 0} |-> g[k]]] :
        l \in [0..(MaxToni - 1) -> 0..2], c \in {0, Disturbo}}

InitA ==
    /\ RiposoW
    /\ RiposoB
    /\ RiposoE
    /\ RiposoH
    /\ RiposoS
    /\ pc_a = "lettura"
    /\ analisi = AnalisiVuota
    /\ esito_a = "none"
    /\ sample_rate = SAMPLE_RATE
    /\ \/ /\ n_audio \in 0..3
          /\ potenza = [n |-> n_audio \div 2, v |-> <<>>]
       \/ /\ n_audio \in {2 * NBinAudio, 2 * NBinAudio + 1, AudioLungo}
          /\ potenza \in SpettriAudio(window_size_beat(n_audio) \div 2)

(***************************************************************************)
(* The script of the section 'Analisi Audio Microfono', lines 2745-2847.   *)
(***************************************************************************)
\* lines 2745-2761: read and normalise; np.max raises ValueError on an empty array
LeggiAudio ==
    /\ pc_a = "lettura"
    /\ pc_a' = IF n_audio = 0 THEN "eccezione" ELSE "fft"
    /\ UNCHANGED <<sample_rate, n_audio, potenza, analisi, esito_a>>
    /\ UNCHANGED FuoriA

\* lines 2798-2812: spectrum, find_peaks, top 5; np.max raises on an empty spectrum
SpettroAudio ==
    /\ pc_a = "fft"
    /\ LET w == window_size_beat(n_audio)
       IN  IF w \div 2 = 0
           THEN pc_a' = "eccezione" /\ analisi' = analisi
           ELSE /\ pc_a' = "spettrogramma"
                /\ \E sp \in {"alto", "basso"} :
                      analisi' = analisi_spettrale(potenza, sample_rate, w, sp)
    /\ UNCHANGED <<sample_rate, n_audio, potenza, esito_a>>
    /\ UNCHANGED FuoriA

\* lines 2835-2844: nperseg = min(2048, len(audio_data)//10); signal.spectrogram
\* raises ValueError when nperseg is 0
Spettrogramma ==
    /\ pc_a = "spettrogramma"
    /\ IF n_audio \div 10 < 1
       THEN pc_a' = "eccezione" /\ esito_a' = esito_a
       ELSE pc_a' = "fine" /\ esito_a' = "analisi"
    /\ UNCHANGED <<sample_rate, n_audio, potenza, analisi>>
    /\ UNCHANGED FuoriA

\* lines 2846-2847: except Exception -> "Errore durante l'analisi"
EccezioneAudio ==
    /\ pc_a = "eccezione"
    /\ pc_a' = "fine"
    /\ esito_a' = "errore_analisi"
    /\ UNCHANGED <<sample_rate, n_audio, potenza, analisi>>
    /\ UNCHANGED FuoriA

NextA ==
    \/ LeggiAudio
    \/ SpettroAudio
    \/ Spettrogramma
    \/ EccezioneAudio

SpecAudio == InitA /\ [][NextA]_vars

(***************************************************************************)
(* Inputs of Part IV: the places that compute an envelope, with the        *)
(* lengths of the signal their controls allow (20000 samples per second).  *)
(***************************************************************************)
Siti ==
    {[riga |-> 622,  pad |-> TRUE,  nmin |-> 400,   nmax |-> 200000],
     [riga |-> 715,  pad |-> TRUE,  nmin |-> 12000, nmax |-> 12000],
     [riga |-> 1108, pad |-> TRUE,  nmin |-> 400,   nmax |-> 200000],
     [riga |-> 1415, pad |-> TRUE,  nmin |-> 10000, nmax |-> 60000],
     [riga |-> 3848, pad |-> TRUE,  nmin |-> 2000,  nmax |-> 100000],
     [riga |-> 2027, pad |-> FALSE, nmin |-> 10000, nmax |-> 10000],
     [riga |-> 2065, pad |-> FALSE, nmin |-> 2000,  nmax |-> 100000],
     [riga |-> 2290, pad |-> FALSE, nmin |-> 10000, nmax |-> 10000],
     [riga |-> 2360, pad |-> FALSE, nmin |-> 10000, nmax |-> 10000],
     [riga |-> 3024, pad |-> FALSE, nmin |-> 4410,  nmax |-> 132300]}

\* the places whose envelope goes to calcola_larghezza_temporale, and the
\* one of the section 'Riconoscimento Battimenti'
SitiLarghezza == {2027, 2065, 2290, 2360}
SitoBattimenti == 3024

InitE ==
    /\ RiposoW
    /\ RiposoB
    /\ RiposoA
    /\ RiposoH
    /\ RiposoS
    /\ sito \in Siti
    /\ n_seg \in {n \in (sito.nmin)..(sito.nmin + MaxExtra) : n <= sito.nmax}
                    \cup {sito.nmax}
    /\ arr = Segnale(n_seg)
    /\ passi_e = <<>>
    /\ pc_e = "inizio"

\* y_pad = np.pad(y, (pad_len, pad_len), mode='reflect'), lines 1107-1108
Pad ==
    /\ pc_e = "inizio"
    /\ sito.pad
    /\ arr' = np_pad(arr, pad_len(arr.n))
    /\ passi_e' = Append(passi_e, "pad")
    /\ pc_e' = "hilbert"
    /\ UNCHANGED <<sito, n_seg>>
    /\ UNCHANGED FuoriE

\* np.abs(signal.hilbert(...)): of the padded signal (line 1109), or of the
\* signal itself where the source does not pad (line 2027)
Hilbert ==
    /\ \/ pc_e = "hilbert"
       \/ pc_e = "inizio" /\ ~sito.pad
    /\ arr' = hilbert(arr)
    /\ passi_e' = Append(passi_e, "hilbert")
    /\ pc_e' = IF sito.pad THEN "taglio" ELSE "fine"
    /\ UNCHANGED <<sito, n_seg>>
    /\ UNCHANGED FuoriE

\* [pad_len:-pad_len], line 1110
Taglia ==
    /\ pc_e = "taglio"
    /\ arr' = slice(arr, pad_len(n_seg), 0 - pad_len(n_seg))
    /\ passi_e' = Append(passi_e, "taglio")
    /\ pc_e' = "fine"
    /\ UNCHANGED <<sito, n_seg>>
    /\ UNCHANGED FuoriE

NextE ==
    \/ Pad
    \/ Hilbert
    \/ Taglia

SpecEnv == InitE /\ [][NextE]_vars

(***************************************************************************)
(* Inputs of Part V: the values of the controls of each section, lengths   *)
(* in tenths of a metre, frequencies in Hz, durations in tenths of a       *)
(* second.                                                                 *)
(***************************************************************************)
\* lines 2273-2276
ComandiMulti ==
    {c \in [n_pacchetti : 3..MaxProve, lambda_min_base : {20, 40},
            delta_lambda_step : {3, 4}, n_onde_fisso : {30, 60}] :
        /\ c.n_pacchetti \in slider(3, 15, 8)
        /\ c.lambda_min_base \in slider(15, 40, 20)
        /\ c.delta_lambda_step \in slider(3, 20, 8)
        /\ c.n_onde_fisso \in slider(30, 100, 60)}

\* lines 2342-2346
ComandiReg ==
    {c \in [n_punti : 5..MaxProve, lambda_min_reg : {30, 40},
            lambda_max_min : {35, 50}, lambda_max_max : {55, 70},
            n_onde_reg : {40, 70}] :
        /\ c.n_punti \in slider(5, 25, 12)
        /\ c.lambda_min_reg \in slider(15, 40, 20)
        /\ c.lambda_max_min \in slider(c.lambda_min_reg + 10, 80, 35)
        /\ c.lambda_max_max \in slider(c.lambda_max_min + 20, 120, 90)
        /\ c.n_onde_reg \in slider(40, 100, 70)}

\* lines 1925-1969: f_max is kept at least 5 Hz above f_min
ComandiIndet ==
    {c \in [f_min : {1, 100, 500}, f_max : {6, 105, 505, 1000},
            n_onde : {5, 100}, durata : {1, 15}] :
        /\ c.f_min \in 1..500
        /\ c.f_max \in (c.f_min + 5)..1000}

\* lines 3201-3203
ComandiConfronto ==
    {c \in [f_min_a : {1, 20, 100, 500}, f_max_a : {2, 20, 30, 100, 101, 500}] :
        /\ c.f_min_a \in slider(1, 500, 20)
        /\ c.f_max_a \in slider(c.f_min_a + 1, 500, 30)}

InitH ==
    /\ RiposoW
    /\ RiposoB
    /\ RiposoA
    /\ RiposoE
    /\ RiposoS
    /\ \/ sezione = "multi" /\ comandi \in ComandiMulti
       \/ sezione = "reg" /\ comandi \in ComandiReg
       \/ sezione = "indet" /\ comandi \in ComandiIndet
       \/ sezione = "confronto" /\ comandi \in ComandiConfronto
    /\ risultati = <<>>
    /\ aggregati = <<>>
    /\ divisioni = <<>>
    /\ pc_h = "attesa"

\* if st.button("Genera e Analizza"): risultati = []       (lines 2278-2279)
Genera ==
    /\ sezione = "multi"
    /\ pc_h = "attesa"
    /\ risultati' = <<>>
    /\ pc_h' = "ciclo"
    /\ UNCHANGED <<sezione, comandi, aggregati, divisioni>>
    /\ UNCHANGED FuoriH

\* one pass of for i in range(n_pacchetti)                  (lines 2280-2302)
ProvaMulti ==
    /\ sezione = "multi"
    /\ pc_h = "ciclo"
    /\ Len(risultati) < comandi.n_pacchetti
    /\ risultati' = appendi(risultati, prova_multi(comandi, Len(risultati) + 1))
    /\ UNCHANGED <<sezione, comandi, aggregati, divisioni, pc_h>>
    /\ UNCHANGED FuoriH

\* df = pd.DataFrame(risultati) ... mean, std                (lines 2304-2319)
AggregaMulti ==
    /\ sezione = "multi"
    /\ pc_h = "ciclo"
    /\ Len(risultati) = comandi.n_pacchetti
    /\ aggregati' = aggrega_multi(Mantissa, risultati)
    /\ pc_h' = "fine"
    /\ UNCHANGED <<sezione, comandi, risultati, divisioni>>
    /\ UNCHANGED FuoriH

\* if st.button("Calcola Regressione"): ... dati = []       (lines 2348-2350)
CalcolaRegressione ==
    /\ sezione = "reg"
    /\ pc_h = "attesa"
    /\ risultati' = <<>>
    /\ pc_h' = "ciclo"
    /\ UNCHANGED <<sezione, comandi, aggregati, divisioni>>
    /\ UNCHANGED FuoriH

\* one pass of for lmax in lambda_max_vals                  (lines 2351-2368)
ProvaReg ==
    /\ sezione = "reg"
    /\ pc_h = "ciclo"
    /\ Len(risultati) < comandi.n_punti
    /\ LET rec == prova_reg(comandi, Len(risultati) + 1)
       IN  /\ risultati' = appendi(risultati, rec)
           /\ divisioni' = Append(divisioni, Divisione(2365, FALSE, rec.delta_k.num))
    /\ UNCHANGED <<sezione, comandi, aggregati, pc_h>>
    /\ UNCHANGED FuoriH

\* df = pd.DataFrame(dati); linregress(...)                  (lines 2370-2371)
Regressione ==
    /\ sezione = "reg"
    /\ pc_h = "ciclo"
    /\ Len(risultati) = comandi.n_punti
    /\ aggregati' = aggrega_reg(Mantissa, risultati)
    /\ pc_h' = "fine"
    /\ UNCHANGED <<sezione, comandi, risultati, divisioni>>
    /\ UNCHANGED FuoriH

\* the theoretical widths and the repetition period  (lines 1972-1983, 2052-2055)
Indeterminazione ==
    /\ sezione = "indet"
    /\ pc_h = "attesa"
    /\ divisioni' = divisioni_indet(comandi.f_min, comandi.f_max, comandi.n_onde)
    /\ aggregati' = [delta_x_teorico |-> delta_x_teorico(comandi.f_min, comandi.f_max),
                     T_ripetizione |-> T_ripetizione(comandi.f_min, comandi.f_max,
                                                     comandi.n_onde, comandi.durata)]
    /\ pc_h' = "fine"
    /\ UNCHANGED <<sezione, comandi, risultati>>
    /\ UNCHANGED FuoriH

\* delta_x_a = 4 * np.pi / delta_k_a, a division of Python floats: it raises
\* ZeroDivisionError for a zero divisor                      (lines 3205-3207)
ConfrontoScenari ==
    /\ sezione = "confronto"
    /\ pc_h = "attesa"
    /\ LET delta_f_a == comandi.f_max_a - comandi.f_min_a
       IN  /\ divisioni' = <<Divisione(3207, FALSE, delta_f_a)>>
           /\ IF delta_f_a = 0
              THEN /\ pc_h' = "ZeroDivisionError"
                   /\ UNCHANGED aggregati
              ELSE /\ pc_h' = "fine"
                   /\ aggregati' = [delta_x_a |-> [num |-> 2 * V_SUONO, den |-> delta_f_a]]
    /\ UNCHANGED <<sezione, comandi, risultati>>
    /\ UNCHANGED FuoriH

NextH ==
    \/ Genera
    \/ ProvaMulti
    \/ AggregaMulti
    \/ CalcolaRegressione
    \/ ProvaReg
    \/ Regressione
    \/ Indeterminazione
    \/ ConfrontoScenari

SpecSweep == InitH /\ [][NextH]_vars

(***************************************************************************)
(* Inputs of Part VI: the values the user gives to the widgets, inside the *)
(* range each widget offers.                                               *)
(***************************************************************************)
ValoriBatt ==
    [f1 |-> {10, 4321, 4400, 20000}, f2 |-> {10, 4321, 4450, 20000},
     A1 |-> {5, 10, 20}, A2 |-> {5, 10, 20}]

ValoriPkt ==
    ("pkt_fmin_s" :> {10, 1000, 1295, 4950, 5000})
    @@ ("pkt_fmin_i" :> {10, 1000, 1295, 4960, 5000})
    @@ ("pkt_fmax_s" :> {1300, 2000, 4990, 5000})
    @@ ("pkt_fmax_i" :> {1300, 2000, 4990, 5000})
    @@ ("pkt_n_s" :> {5, 50, 100})
    @@ ("pkt_n_i" :> {5, 50, 100})

\* the range each widget of the custom mode offers in the page as drawn
RangePkt(k) ==
    IF k \in {"pkt_fmin_s", "pkt_fmin_i"} THEN 10..5000
    ELSE IF k \in {"pkt_fmax_s", "pkt_fmax_i"} THEN uscita.min_fmax..5000
    ELSE 5..100

\* the arguments of on_change of each widget: args=(key_from, key_to)
AltraChiavePkt ==
    ("pkt_fmin_s" :> "pkt_fmin_i") @@ ("pkt_fmin_i" :> "pkt_fmin_s")
    @@ ("pkt_fmax_s" :> "pkt_fmax_i") @@ ("pkt_fmax_i" :> "pkt_fmax_s")
    @@ ("pkt_n_s" :> "pkt_n_i") @@ ("pkt_n_i" :> "pkt_n_s")

ValoriAnim ==
    ("tipo_anim" :> {"Pacchetto d'onda", "Battimenti", "Onda singola"})
    @@ ("anim_lung" :> {5, 20, 50}) @@ ("anim_dur" :> {5, 15, 30})
    @@ ("anim_frames" :> {20, 50, 100})

\* a new browser session opens the page: nothing is stored yet
InitS ==
    /\ RiposoW
    /\ RiposoB
    /\ RiposoA
    /\ RiposoE
    /\ RiposoH
    /\ pagina \in {"battimenti", "pacchetti", "animazione"}
    /\ session_state = <<>>
    /\ evento = [tipo |-> "avvio", chiave |-> ""]
    /\ uscita = <<>>
    /\ pc_s = "rerun"

\* the user moves a slider or edits a numeric input of 'Battimenti': the new
\* value is stored under the widget's key and set_custom runs (lines 968-1011)
ModificaBatt ==
    /\ pagina = "battimenti"
    /\ pc_s = "fine"
    /\ \E param \in Elementi(ParametriBatt), suff \in {"_slider", "_input"} :
         \E v \in ValoriBatt[param] \cap RangeBatt[param] :
            /\ v # session_state[param \o suff]
            /\ session_state' =
                  set_custom(assegna(session_state, param \o suff, v), param, param \o suff)
            /\ evento' = [tipo |-> "modifica", chiave |-> param \o suff]
    /\ pc_s' = "rerun"
    /\ UNCHANGED <<pagina, uscita>>
    /\ UNCHANGED FuoriS

\* the user picks an entry of 'Carica preset:': the entry is stored under
\* preset_batt_k and applica_preset runs (line 961)
ScegliPreset ==
    /\ pagina = "battimenti"
    /\ pc_s = "fine"
    /\ \E q \in DOMAIN PRESET_FAMOSI :
          /\ q # session_state["preset_batt_k"]
          /\ session_state' = applica_preset(assegna(session_state, "preset_batt_k", q))
    /\ evento' = [tipo |-> "preset", chiave |-> "preset_batt_k"]
    /\ pc_s' = "rerun"
    /\ UNCHANGED <<pagina, uscita>>
    /\ UNCHANGED FuoriS

\* the user moves a slider or edits a numeric input of the custom mode of
\* 'Pacchetti d'Onda': update_pkt_widget runs (lines 1358-1377)
ModificaPkt ==
    /\ pagina = "pacchetti"
    /\ pc_s = "fine"
    /\ \E k \in DOMAIN ValoriPkt :
         \E v \in ValoriPkt[k] \cap RangePkt(k) :
            /\ v # session_state[k]
            /\ session_state' =
                  update_pkt_widget(assegna(session_state, k, v), k, AltraChiavePkt[k])
            /\ evento' = [tipo |-> "modifica", chiave |-> k]
    /\ pc_s' = "rerun"
    /\ UNCHANGED <<pagina, uscita>>
    /\ UNCHANGED FuoriS

\* the user changes a control of 'Animazione Propagazione' (no callback)
ModificaAnim ==
    /\ pagina = "animazione"
    /\ pc_s = "fine"
    /\ \E k \in DOMAIN ValoriAnim :
         \E v \in ValoriAnim[k] :
            /\ v # session_state[k]
            /\ session_state' = assegna(session_state, k, v)
            /\ evento' = [tipo |-> "modifica", chiave |-> k]
    /\ pc_s' = "rerun"
    /\ UNCHANGED <<pagina, uscita>>
    /\ UNCHANGED FuoriS

\* the user clicks 'Genera Animazione' (line 2535)
Clic ==
    /\ pagina = "animazione"
    /\ pc_s = "fine"
    /\ evento' = [tipo |-> "clic", chiave |-> "gen_anim"]
    /\ pc_s' = "rerun"
    /\ UNCHANGED <<pagina, session_state, uscita>>
    /\ UNCHANGED FuoriS

\* the script runs, from its first line to its last, on the page shown
Esegui ==
    /\ pc_s = "rerun"
    /\ LET r == IF pagina = "battimenti" THEN script_battimenti(session_state)
                ELSE IF pagina = "pacchetti" THEN script_pacchetti(session_state)
                ELSE script_animazione(session_state, evento.tipo = "clic")
       IN  /\ session_state' = r.stato
           /\ uscita' = r.uscita
    /\ pc_s' = "fine"
    /\ UNCHANGED <<pagina, evento>>
    /\ UNCHANGED FuoriS

NextS ==
    \/ ModificaBatt
    \/ ScegliPreset
    \/ ModificaPkt
    \/ ModificaAnim
    \/ Clic
    \/ Esegui

SpecSession == InitS /\ [][NextS]_vars

(***************************************************************************)
(* Properties of Part I.                                                   *)
(***************************************************************************)
N == len(inviluppo)
Tornato == pc_w = "ret"

\* C1: on every return path the right index is >= the left index, both are
\* valid indices in 0..N-1, and the width is >= 0.
C1_IndiciOrdinati ==
    Tornato =>
        /\ ris.idx_sx \in 0..(N - 1)
        /\ ris.idx_dx \in 0..(N - 1)
        /\ ris.idx_dx >= ris.idx_sx
        /\ ris.delta_x >= 0

\* a lateral-minimum return with distinct indices and a positive width
C1_Witness ==
    Tornato /\ ris.via = "lateral" /\ ris.idx_sx < ris.idx_dx /\ ris.delta_x > 0

\* C2: a global maximum below the floor 1e-10 (all-zero included) gives
\* width 0, left index 0, right index N-1, and the envelope is not normalised.
C2_SottoFloor ==
    (Tornato /\ np_max(inviluppo) < Floor) =>
        /\ ris.delta_x = 0
        /\ ris.idx_sx = 0
        /\ ris.idx_dx = N - 1
        /\ ~ris.normalizzato

\* a faint but non-zero envelope on a grid of several samples took the floor return
C2_Witness ==
    /\ Tornato
    /\ np_max(inviluppo) > 0
    /\ np_max(inviluppo) < Floor
    /\ N > 1
    /\ ris.via = "floor"

\* the spec's boundary exclusion: 10 samples at each end of the grid
BordoEscluso == RightStop

\* the sample i qualifies in the sense of the claims C3 and C6, for the
\* central maximum at index c with value mx
Qualifica(i, c, mx) ==
    /\ Abs(i - c) >= PeakMargin
    /\ i >= BordoEscluso
    /\ i <= N - 1 - BordoEscluso
    /\ IsLateralMin(inviluppo, mx, i, threshold)

QualificaSx ==
    LET c == np_argmax(inviluppo)
        mx == np_max(inviluppo)
    IN  {i \in 0..(N - 1) : i < c /\ Qualifica(i, c, mx)}
QualificaDx ==
    LET c == np_argmax(inviluppo)
        mx == np_max(inviluppo)
    IN  {i \in 0..(N - 1) : i > c /\ Qualifica(i, c, mx)}

\* C3: when a qualifying sample exists on both sides of the central maximum,
\* the call returns on each side the qualifying index nearest to the maximum.
C3_PrimoMinimo ==
    (Tornato /\ np_max(inviluppo) >= Floor /\ QualificaSx # {} /\ QualificaDx # {}) =>
        /\ ris.idx_sx = SetMax(QualificaSx)
        /\ ris.idx_dx = SetMin(QualificaDx)

\* C3 with the left boundary the loop of line 349 has (indices 0..10 excluded)
C3_BordoDelCodice ==
    (Tornato /\ np_max(inviluppo) >= Floor
        /\ QualificaSx \ {LeftStop} # {} /\ QualificaDx # {}) =>
        /\ ris.idx_sx = SetMax(QualificaSx \ {LeftStop})
        /\ ris.idx_dx = SetMin(QualificaDx)

\* C4: if the search fails on the left or on the right (or both), a minimum
\* found on the other side is discarded and the indices returned are the
\* leftmost and the rightmost index whose normalised envelope is > 0.5.
C4_Fallback ==
    (Tornato /\ ris.normalizzato /\ (ris.trovato_sx = None \/ ris.trovato_dx = None)) =>
        LET mx == np_max(inviluppo)
            sopra == {i \in 0..(N - 1) : 2 * inviluppo[i] > mx}
        IN  /\ ris.idx_sx = SetMin(sopra)
            /\ ris.idx_dx = SetMax(sopra)

\* one side had found a minimum, the other had not, and the found one was dropped
C4_Witness ==
    /\ Tornato
    /\ ris.via = "fwhm"
    /\ \/ ris.trovato_sx # None /\ ris.trovato_dx = None /\ ris.idx_sx # ris.trovato_sx
       \/ ris.trovato_dx # None /\ ris.trovato_sx = None /\ ris.idx_dx # ris.trovato_dx

\* C5 as stated: for every result, width = |t[right] - t[left]|.
C5_LarghezzaSempre ==
    Tornato => ris.delta_x = Abs(t[ris.idx_dx] - t[ris.idx_sx])

\* C5 amended: width = |t[right] - t[left]| on every return at or above the
\* floor; below the floor the width is 0 with the indices 0 and N-1.
C5_Larghezza ==
    Tornato =>
        IF np_max(inviluppo) >= Floor
        THEN ris.delta_x = Abs(t[ris.idx_dx] - t[ris.idx_sx])
        ELSE ris.delta_x = 0 /\ ris.idx_sx = 0 /\ ris.idx_dx = N - 1

\* a return above the floor whose width is not the distance of the indices
C5_Witness ==
    /\ Tornato
    /\ ris.via \in {"lateral", "fwhm"}
    /\ ris.delta_x > ris.idx_dx - ris.idx_sx
    /\ ris.delta_x = Abs(t[ris.idx_dx] - t[ris.idx_sx])

\* C6: the search excludes exactly 10 samples at each end: no lateral minimum
\* is returned from 0..9 or N-10..N-1, and a qualifying left minimum at index
\* 10 and a qualifying right minimum at index N-11 are both returned when
\* they are the nearest ones and the other side has one too.
C6_BordoSimmetrico ==
    (Tornato /\ np_max(inviluppo) >= Floor) =>
        /\ ris.via = "lateral" =>
              /\ ris.idx_sx \notin 0..(BordoEscluso - 1)
              /\ ris.idx_dx \notin (N - BordoEscluso)..(N - 1)
        /\ (QualificaDx # {} /\ QualificaSx # {}
              /\ SetMin(QualificaDx) = N - 1 - BordoEscluso) =>
              ris.via = "lateral" /\ ris.idx_dx = N - 1 - BordoEscluso
        /\ (QualificaDx # {} /\ QualificaSx = {BordoEscluso}) =>
              ris.via = "lateral" /\ ris.idx_sx = BordoEscluso

\* the part of C6 the code does satisfy: nothing is returned from the
\* excluded ends, and index N-11 is eligible on the right
C6_ParteDestra ==
    (Tornato /\ np_max(inviluppo) >= Floor) =>
        /\ ris.via = "lateral" =>
              /\ ris.idx_sx \notin 0..(BordoEscluso - 1)
              /\ ris.idx_dx \notin (N - BordoEscluso)..(N - 1)
        /\ (QualificaDx # {} /\ QualificaSx \ {LeftStop} # {}
              /\ SetMin(QualificaDx) = N - 1 - BordoEscluso) =>
              ris.via = "lateral" /\ ris.idx_dx = N - 1 - BordoEscluso

\* a lateral return whose right index is N-11
C6_WitnessDestra ==
    Tornato /\ ris.via = "lateral" /\ ris.idx_dx = N - 1 - BordoEscluso


(***************************************************************************)
(* Properties of Part II.                                                  *)
(***************************************************************************)
Finito == pc_b = "fine"
PassiAnalisi ==
    {"normalizza", "fft", "find_peaks", "top_2", "hilbert", "smooth", "centra",
     "fft_inviluppo", "find_peaks_inviluppo", "confronto"}

\* f is within tol_num / tol_den Hz of hz
Vicino(f, hz, tol_num, tol_den) ==
    tol_den * Abs(f.num - hz * f.den) <= tol_num * f.den

\* C7: for the synthetic beat 440 / 444 Hz (equal amplitude, 2 s or more at
\* 44100 Hz) the run ends in the two-tone outcome, with both carriers kept
\* by the peak picker, beat_theoretical = 4 Hz (to within one bin) and
\* beat_measured within 10% of 4 Hz.
C7_BattimentoSintetico ==
    (Finito /\ sample_rate_beat = SAMPLE_RATE
        /\ Val(potenza_beat, BinVicino(F1Prova, SAMPLE_RATE, FinestraMax))
             = Val(potenza_beat, BinVicino(F2Prova, SAMPLE_RATE, FinestraMax))) =>
        /\ esito.tipo = "due_toni"
        /\ BinVicino(F1Prova, SAMPLE_RATE, FinestraMax) \in Elementi(peaks_beat)
        /\ BinVicino(F2Prova, SAMPLE_RATE, FinestraMax) \in Elementi(peaks_beat)
        /\ Vicino(esito.f_batt_teorica, F2Prova - F1Prova, SAMPLE_RATE, FinestraMax)
        /\ Vicino(esito.f_batt_misurata, F2Prova - F1Prova, 4, 10)

\* C8: with two or more detected peaks the two of highest amplitude are
\* selected, f1 is the lower and f2 the higher of their frequencies, and
\* beat_theoretical = f2 - f1.
C8_DuePiuAlti ==
    (Finito /\ Len(peaks_beat) >= 2) =>
        LET top == Elementi(esito.top_2_peaks)
            w == window_size_beat(n_camp)
        IN  /\ esito.tipo = "due_toni"
            /\ Cardinality(top) = 2
            /\ top \subseteq Elementi(peaks_beat)
            /\ \A p \in Elementi(peaks_beat) \ top, q \in top :
                  Val(potenza_beat, p) <= Val(potenza_beat, q)
            /\ esito.f1_rilevata = fftfreq(SetMin(top), sample_rate_beat, w)
            /\ esito.f2_rilevata = fftfreq(SetMax(top), sample_rate_beat, w)
            /\ esito.f_batt_teorica =
                  [num |-> esito.f2_rilevata.num - esito.f1_rilevata.num, den |-> w]

\* three peaks detected, the lowest one not selected, and the louder of the
\* two selected is the one of higher frequency
C8_Witness ==
    /\ Finito
    /\ esito.tipo = "due_toni"
    /\ Len(peaks_beat) >= 3
    /\ peaks_beat[1] \notin Elementi(esito.top_2_peaks)
    /\ esito.top_2_peaks[1] > esito.top_2_peaks[2]
    /\ Val(potenza_beat, esito.top_2_peaks[1]) > Val(potenza_beat, esito.top_2_peaks[2])
    /\ Val(potenza_beat, peaks_beat[1]) < Val(potenza_beat, esito.top_2_peaks[2])

\* C9: for non-empty audio the run ends in exactly one of three outcomes
\* decided by the number of detected peaks: two-tone analysis (>= 2), only
\* one dominant frequency (1), no dominant frequency (0); the last two
\* compute no beat value and no exception is raised.
C9_TreEsiti ==
    (Finito /\ n_camp > 0) =>
        /\ esito.tipo \in {"due_toni", "una_sola_frequenza", "nessuna_frequenza"}
        /\ esito.tipo = "due_toni" <=> Len(peaks_beat) >= 2
        /\ esito.tipo = "una_sola_frequenza" <=> Len(peaks_beat) = 1
        /\ esito.tipo = "nessuna_frequenza" <=> Len(peaks_beat) = 0
        /\ esito.tipo # "due_toni" => ~esito.calcolato

\* C9 for the recordings of at least 0.1 s (10 * window >= fs), which the code satisfies
C9_AlmenoUnDecimo ==
    (Finito /\ DistanzaHz * window_size_beat(n_camp) >= sample_rate_beat) =>
        /\ esito.tipo \in {"due_toni", "una_sola_frequenza", "nessuna_frequenza"}
        /\ esito.tipo = "due_toni" <=> Len(peaks_beat) >= 2
        /\ esito.tipo = "una_sola_frequenza" <=> Len(peaks_beat) = 1
        /\ esito.tipo = "nessuna_frequenza" <=> Len(peaks_beat) = 0
        /\ esito.tipo # "due_toni" => ~esito.calcolato

\* C10: with zero decoded samples the run reports the error and stops: no
\* normalisation, spectral analysis, envelope extraction or comparison runs.
C10_VuotoSiFerma ==
    n_camp = 0 =>
        /\ pc_b \in {"lettura", "fine"}
        /\ Elementi(passi) \cap PassiAnalisi = {}
        /\ Finito => /\ esito.tipo = "audio_vuoto"
                     /\ passi = <<"lettura", "errore_vuoto", "stop">>

\* an empty recording was read and the run has ended with the error shown
C10_Witness ==
    n_camp = 0 /\ Finito /\ esito.tipo = "audio_vuoto" /\ Len(passi) = 3

\* two frequencies num / den are the same number
FreqUguale(f, g) == f.num * g.den = g.num * f.den

\* the bins of the envelope spectrum strictly inside (0.5 Hz, 30 Hz)
BinInBanda ==
    {k \in 0..(potenza_env.n - 1) :
        /\ BandaMinDen * k * sample_rate_beat > n_camp
        /\ k * sample_rate_beat < BandaMax * n_camp}

\* 1 / (mean spacing on t_beat of the samples of P), 0 with fewer than two
InversoSpaziatura(P) ==
    IF Cardinality(P) >= 2
    THEN [num |-> sample_rate_beat * (n_camp - 1) * (Cardinality(P) - 1),
          den |-> (SetMax(P) - SetMin(P)) * n_camp]
    ELSE FreqZero

\* beat_measured on the primary path: the frequency of a largest bin of the band
MisuraPrimaria ==
    \E k \in BinInBanda :
        /\ \A j \in BinInBanda : Val(potenza_env, j) <= Val(potenza_env, k)
        /\ FreqUguale(esito.f_batt_misurata, fftfreq(k, sample_rate_beat, n_camp))

BandaVuota == \A k \in BinInBanda : Val(potenza_env, k) = 0

\* the maxima find_peaks may keep with a minimum separation d: pairwise at
\* least d apart, every other maximum closer than d to a kept one
TenutiPossibili(M, d) ==
    {P \in SUBSET M :
        /\ \A p \in P, q \in P : p # q => Abs(p - q) >= d
        /\ \A m \in M \ P : \E p \in P : Abs(p - m) < d}

C11_WitnessPrimaria ==
    /\ Finito
    /\ esito.tipo = "due_toni"
    /\ esito.via_misura = "fft_inviluppo"
    /\ \E j \in BinInBanda, k \in BinInBanda :
          0 < Val(potenza_env, j) /\ Val(potenza_env, j) < Val(potenza_env, k)

\* C12: every non-empty audio input, however short, ends in one of the
\* distinguished outcomes and never in the generic exception handler.
C12_MaiErroreGenerico ==
    (Finito /\ n_camp > 0) => esito.tipo # "errore_analisi"

\* what the code does instead: the generic handler is reached exactly by the
\* non-empty recordings whose window is shorter than 0.1 s (distance = 0)
C12_ErroreSeCorta ==
    (Finito /\ n_camp > 0) =>
        (esito.tipo = "errore_analisi"
            <=> DistanzaHz * window_size_beat(n_camp) < sample_rate_beat)

\* p is a local maximum of x, in the weakest sense (neighbours not higher)
MassimoLocale(x, p) ==
    /\ p >= 1
    /\ p <= x.n - 2
    /\ Val(x, p - 1) <= Val(x, p)
    /\ Val(x, p + 1) <= Val(x, p)

\* the peaks of the sequence ps are a local maximum of x each, at least
\* perc % of the maximum of x high, and pairwise at least d bins apart
PicchiValidi(ps, x, perc, d) ==
    /\ \A p \in Elementi(ps) :
          /\ MassimoLocale(x, p)
          /\ 100 * Val(x, p) >= perc * np_max_sparso(x)
    /\ \A p \in Elementi(ps), q \in Elementi(ps) : p # q => Abs(p - q) >= d

\* C13 (beat recognition): every reported peak is a local maximum of the
\* one-sided amplitude spectrum, at least 15% of its global maximum high; two
\* reported peaks are at least int(10*window/fs) bins apart; no reported peak
\* lies at or below 50 Hz.
C13_PicchiDelloSpettro ==
    LET w == window_size_beat(n_camp)
    IN  /\ PicchiValidi(peaks_beat, potenza_beat, AltezzaPerc,
                        (DistanzaHz * w) \div sample_rate_beat)
        /\ \A p \in Elementi(peaks_beat) : p * sample_rate_beat > FreqMinima * w

\* what the code guarantees: the same, of the spectrum with the bins at or
\* below 50 Hz set to zero
C13_PicchiDelFiltrato ==
    LET w == window_size_beat(n_camp)
    IN  /\ PicchiValidi(peaks_beat,
                        potenza_filtered(potenza_beat, sample_rate_beat, w),
                        AltezzaPerc, (DistanzaHz * w) \div sample_rate_beat)
        /\ \A p \in Elementi(peaks_beat) : p * sample_rate_beat > FreqMinima * w

(***************************************************************************)
(* Properties of Part III.                                                 *)
(***************************************************************************)
FinitoAudio == pc_a = "fine" /\ esito_a = "analisi"

\* the bin a frequency of the axis xf belongs to
BinDi(f) == f.num \div sample_rate

\* C14: in the audio Spectral Analyzer the frequency axis and the spectrum
\* have window//2 entries, every peak index is in 0..window//2 - 1, the
\* peak-frequency and peak-amplitude arrays are parallel (entry i of both
\* from bin peaks[i]), and the top 5 keep every frequency with the
\* amplitude of its own bin, in decreasing order of amplitude.
C14_Paralleli ==
    FinitoAudio =>
        LET w == window_size_beat(n_audio)
            a == analisi
        IN  /\ a.xf_len = w \div 2
            /\ potenza.n = w \div 2
            /\ \A i \in 1..Len(a.peaks) : 0 <= a.peaks[i] /\ a.peaks[i] < w \div 2
            /\ Len(a.freq_peaks) = Len(a.peaks)
            /\ Len(a.amp_peaks) = Len(a.peaks)
            /\ \A i \in 1..Len(a.peaks) :
                  /\ a.freq_peaks[i] = fftfreq(a.peaks[i], sample_rate, w)
                  /\ a.amp_peaks[i] = Val(potenza, a.peaks[i])
            /\ Len(a.top_freqs) = (IF Len(a.peaks) < QuantiTop THEN Len(a.peaks) ELSE QuantiTop)
            /\ Len(a.top_amps) = Len(a.top_freqs)
            /\ \A i \in 1..Len(a.top_freqs) :
                  /\ BinDi(a.top_freqs[i]) \in Elementi(a.peaks)
                  /\ a.top_amps[i] = Val(potenza, BinDi(a.top_freqs[i]))
            /\ \A i \in 1..Len(a.top_freqs), j \in 1..Len(a.top_freqs) :
                  i # j => a.top_freqs[i] # a.top_freqs[j]
            /\ \A i \in 1..(Len(a.top_amps) - 1) : a.top_amps[i] >= a.top_amps[i + 1]
            /\ \A p \in Elementi(a.peaks) :
                  (\A i \in 1..Len(a.top_freqs) : BinDi(a.top_freqs[i]) # p) =>
                      \A i \in 1..Len(a.top_amps) : Val(potenza, p) <= a.top_amps[i]

\* six peaks or more, and the top 5 are not the five first peaks of the spectrum
C14_Witness ==
    /\ FinitoAudio
    /\ Len(analisi.peaks) > QuantiTop
    /\ analisi.top_freqs[1] # analisi.freq_peaks[1]
    /\ analisi.top_amps[1] > analisi.top_amps[QuantiTop]

\* C13 in the audio analysis: every reported peak is a local maximum of the
\* spectrum, at least 10% of its maximum, and 20 bins or more from the others
C13_PicchiAudio ==
    pc_a \in {"spettrogramma", "fine"} /\ esito_a # "errore_analisi" =>
        PicchiValidi(analisi.peaks, potenza, AltezzaAudioPerc, DistanzaAudio)

(***************************************************************************)
(* Properties of Part IV.                                                  *)
(***************************************************************************)
\* C15: the padded extractor (pad = int(0.1 * N) reflected samples at each
\* end, transform, slice [pad : -pad]) returns an envelope with exactly as
\* many samples as the signal, sample for sample, for every length N the
\* sections give it.
C15_StessaLunghezza ==
    (pc_e = "fine" /\ sito.pad) =>
        /\ arr.n = n_seg
        /\ arr.sposta = 0
        /\ arr.analitico

\* a length that is not a multiple of 10 went through pad, transform and slice
C15_Witness ==
    /\ pc_e = "fine"
    /\ sito.pad
    /\ n_seg % PadDen # 0
    /\ passi_e = <<"pad", "hilbert", "taglio">>
    /\ arr.n = n_seg

\* C16: on every pipeline that computes an envelope, those of the Width
\* Estimator and of the Beat Recognizer included, the signal is padded
\* before the transform and the padding is cut after it: no envelope is the
\* transform of the unpadded signal.
C16_SemprePad ==
    pc_e = "fine" => passi_e = <<"pad", "hilbert", "taglio">>

\* what the code does: the envelopes that go to the Width Estimator and the
\* one of the Beat Recognizer are transforms of the unpadded signal
C16_SenzaPad ==
    (pc_e = "fine" /\ sito.riga \in SitiLarghezza \cup {SitoBattimenti}) =>
        passi_e = <<"hilbert">>

(***************************************************************************)
(* Properties of Part V.                                                   *)
(***************************************************************************)
\* the trial count K of the running sweep
NumeroProve == IF sezione = "multi" THEN comandi.n_pacchetti ELSE comandi.n_punti

\* the record that trial i of the running sweep produces
ProvaAttesa(i) ==
    IF sezione = "multi" THEN prova_multi(comandi, i) ELSE prova_reg(comandi, i)

\* C17: a sweep of K trials builds a series of exactly K records; at every
\* moment the series holds, in sweep order, the results of the first sweep
\* values, the i-th record being that of the i-th sweep value and, in the
\* multi-packet table, numbered i: none is dropped, duplicated or moved.
C17_SerieInOrdine ==
    sezione \in {"multi", "reg"} =>
        /\ Len(risultati) <= NumeroProve
        /\ pc_h = "fine" => Len(risultati) = NumeroProve
        /\ \A i \in 1..Len(risultati) :
              /\ risultati[i] = ProvaAttesa(i)
              /\ sezione = "multi" => risultati[i].numero = i

\* a multi-packet sweep of more than three trials that ran to its end
C17_Witness ==
    /\ sezione = "multi"
    /\ pc_h = "fine"
    /\ Len(risultati) = comandi.n_pacchetti
    /\ Len(risultati) > 3
    /\ risultati[Len(risultati)].numero = Len(risultati)

\* the orders in which the elements of S can be put
RECURSIVE Permutazioni(_)
Permutazioni(S) ==
    IF S = {} THEN {<<>>}
    ELSE UNION {{<<x>> \o p : p \in Permutazioni(S \ {x})} : x \in S}

\* the series with its records in the order p
Rimescola(serie, p) == [i \in 1..Len(serie) |-> serie[p[i]]]

\* the aggregates of the running section, computed with m significant bits
Aggrega(m, serie) ==
    IF sezione = "multi" THEN aggrega_multi(m, serie) ELSE aggrega_reg(m, serie)

SweepFinito == sezione \in {"multi", "reg"} /\ pc_h = "fine"

C19_DivisioniProtette ==
    /\ \A i \in 1..Len(divisioni) : ~divisioni[i].zero
    /\ pc_h # "ZeroDivisionError"
    /\ sezione = "reg" => \A i \in 1..Len(risultati) : risultati[i].inverso # Infinito

\* what does hold: the divisions of 'Principio di Indeterminazione' are made
\* behind their guards, with a positive divisor
C19_GuardieIndet ==
    sezione = "indet" =>
        /\ \A i \in 1..Len(divisioni) : divisioni[i].guardia /\ ~divisioni[i].zero
        /\ pc_h \in {"attesa", "fine"}

\* the regression's division is made, without a guard, by a zero span
C19_ZeroInRegressione ==
    /\ sezione = "reg"
    /\ \E i \in 1..Len(divisioni) : divisioni[i].zero /\ ~divisioni[i].guardia
    /\ \E i \in 1..Len(risultati) : risultati[i].inverso = Infinito

\* C20 as stated: in every trial of the multi-packet sweep (30 or more equal
\* components) the product of the measured width and the wavenumber span is
\* within 15% of 4 pi.
C20_EntroQuindici ==
    sezione = "multi" =>
        \A i \in 1..Len(risultati) : risultati[i].errore <= 150

\* what does hold: the product is within 15% of 4 pi in the trials whose
\* envelope has its first zero inside the grid, 30 m or less from the centre
C20_ZeroNellaFinestra ==
    sezione = "multi" =>
        \A i \in 1..Len(risultati) :
            PrimoZero(comandi.lambda_min_base, risultati[i].lambda_max,
                      comandi.n_onde_fisso) <= 3000
                => risultati[i].errore <= 150

\* the first trial of the sweep with lambda_min_base 4.0 and step 0.3: the
\* zero of the envelope is 55 m from the centre, outside the grid
C20_FuoriFinestra ==
    /\ sezione = "multi"
    /\ comandi.lambda_min_base = 40
    /\ comandi.delta_lambda_step = 3
    /\ comandi.n_onde_fisso = 30
    /\ Len(risultati) >= 1
    /\ risultati[1].errore > 400

\* C21: in every record of the multi-packet series the stored product is the
\* stored width times the stored wavenumber span of that same trial, and the
\* stored error is |product - 4 pi| / (4 pi) * 100 (here in tenths of a
\* percent, the product in thousandths of 4 pi); with a width of 0 the
\* trial's span gives product 0 and error exactly 100%.
C21_RecordCoerente ==
    sezione = "multi" =>
        \A i \in 1..Len(risultati) :
            LET r == risultati[i]
            IN  /\ r.delta_k = delta_k(comandi.lambda_min_base, r.lambda_max)
                /\ r.prodotto = prodotto(r.delta_x, r.delta_k)
                /\ r.errore = Abs(r.prodotto - 1000)
                /\ prodotto(0, r.delta_k) = 0
                /\ errore(prodotto(0, r.delta_k)) = 1000
                /\ r.delta_x = 0 => (r.prodotto = 0 /\ r.errore = 1000)

\* a finished multi-packet sweep whose records have different spans, a
\* positive width and a product off 4 pi
C21_Witness ==
    /\ sezione = "multi"
    /\ pc_h = "fine"
    /\ Len(risultati) >= 3
    /\ risultati[1].delta_k # risultati[2].delta_k
    /\ \A i \in 1..Len(risultati) :
          risultati[i].delta_x > 0 /\ risultati[i].prodotto > 0
    /\ \E i \in 1..Len(risultati) : risultati[i].errore > 0

\* the lower wavelength bound of the running sweep, in tenths of a metre
lambda_min_sweep ==
    IF sezione = "multi" THEN comandi.lambda_min_base ELSE comandi.lambda_min_reg

\* a < b for the rationals a.p / a.q and b.p / b.q (q > 0)
MinoreLambda(a, b) == a.p * b.q < b.p * a.q

\* a < b for the spans a.num / a.den and b.num / b.den (den > 0)
MinoreSpan(a, b) == a.num * b.den < b.num * a.den

\* the sweep goes up, stays above the lower bound and so does the span
Crescente(serie, lmin) ==
    /\ \A i \in 1..Len(serie) :
          /\ serie[i].lambda_max.p > lmin * serie[i].lambda_max.q
          /\ serie[i].delta_k.num > 0
    /\ \A i \in 1..(Len(serie) - 1) :
          /\ MinoreLambda(serie[i].lambda_max, serie[i + 1].lambda_max)
          /\ MinoreSpan(serie[i].delta_k, serie[i + 1].delta_k)

\* C22 as stated: in both sweeps, for every setting the controls allow, the
\* swept upper wavelength bound increases strictly from trial to trial and
\* stays above the lower bound, so that the span is positive and increases
\* strictly along the series and the regression's 1/dk never divides by zero.
C22_SweepCrescente ==
    sezione \in {"multi", "reg"} =>
        /\ Crescente(risultati, lambda_min_sweep)
        /\ \A i \in 1..Len(divisioni) : ~divisioni[i].zero

\* what does hold: the multi-packet sweep is as stated, and the regression's
\* upper bound increases strictly from trial to trial
C22_MultiCrescente ==
    /\ sezione = "multi" => Crescente(risultati, lambda_min_sweep)
    /\ sezione = "reg" =>
          \A i \in 1..(Len(risultati) - 1) :
              MinoreLambda(risultati[i].lambda_max, risultati[i + 1].lambda_max)

\* a regression sweep that starts below its lower bound (negative span) and
\* passes through it (zero span)
C22_SottoIlMinimo ==
    /\ sezione = "reg"
    /\ pc_h = "fine"
    /\ comandi.lambda_max_min < comandi.lambda_min_reg
    /\ risultati[1].delta_k.num < 0
    /\ \E i \in 1..Len(risultati) : risultati[i].delta_k.num = 0

(***************************************************************************)
(* Further properties of Part II.                                          *)
(***************************************************************************)
DueToniFinito == Finito /\ esito.tipo = "due_toni"

\* the bin of the spectrum whose frequency is f
BinBeat(f) == f.num \div sample_rate_beat

\* C23: in the two-tone result each of the two reported frequencies (f1 the
\* lower, f2 the higher) is paired, in the markers of the detected
\* frequencies, with the spectral amplitude of its own bin, whichever of the
\* two tones is the stronger.
C23_MarcatoriAppaiati ==
    DueToniFinito =>
        /\ esito.marcatori.x = <<esito.f1_rilevata, esito.f2_rilevata>>
        /\ \A i \in 1..2 :
              esito.marcatori.y[i] = Val(potenza_beat, BinBeat(esito.marcatori.x[i]))

\* what does hold: the markers carry the amplitudes of the two bins, and
\* each frequency has its own whenever the lower tone is not the weaker one
C23_SeIlBassoNonEPiuDebole ==
    DueToniFinito =>
        LET a1 == Val(potenza_beat, BinBeat(esito.f1_rilevata))
            a2 == Val(potenza_beat, BinBeat(esito.f2_rilevata))
        IN  /\ {esito.marcatori.y[1], esito.marcatori.y[2]} = {a1, a2}
            /\ a1 >= a2 => esito.marcatori.y = <<a1, a2>>
            /\ a1 < a2 => esito.marcatori.y = <<a2, a1>>

\* the higher tone is the stronger one and the markers are swapped
C23_Scambiati ==
    /\ DueToniFinito
    /\ Val(potenza_beat, BinBeat(esito.f1_rilevata))
          < Val(potenza_beat, BinBeat(esito.f2_rilevata))
    /\ esito.marcatori.y[1] = Val(potenza_beat, BinBeat(esito.f2_rilevata))
    /\ esito.marcatori.y[2] = Val(potenza_beat, BinBeat(esito.f1_rilevata))

\* the place of step x in the steps executed, 0 if it was not executed
Posto(x) ==
    LET S == {i \in 1..Len(passi) : passi[i] = x}
    IN  IF S = {} THEN 0 ELSE SetMin(S)

\* step x was executed, and before step y
Prima(x, y) == Posto(x) > 0 /\ Posto(x) < Posto(y)

\* C24: the steps are, in this order, envelope extraction, mean subtraction,
\* spectral analysis in the band 0.5-30 Hz and, only if that gives no peak,
\* smoothing followed by the count of the local maxima: on the primary path
\* the envelope spectrum comes from the unsmoothed envelope and no smoothing
\* is done.
C24_SmoothSoloInFallback ==
    DueToniFinito =>
        /\ Prima("hilbert", "centra")
        /\ Prima("centra", "fft_inviluppo")
        /\ esito.via_misura = "fft_inviluppo" => Posto("smooth") = 0
        /\ Posto("smooth") > 0 =>
              /\ Prima("fft_inviluppo", "smooth")
              /\ Prima("smooth", "find_peaks_inviluppo")

\* what the code does: the envelope is smoothed on every path, before the
\* mean is subtracted and the spectrum taken; the count of the maxima comes
\* after the spectrum and only when the band is empty
C24_SmoothSempre ==
    DueToniFinito =>
        /\ Prima("hilbert", "smooth")
        /\ Prima("smooth", "centra")
        /\ Prima("centra", "fft_inviluppo")
        /\ Posto("find_peaks_inviluppo") > 0 <=> esito.via_misura # "fft_inviluppo"
        /\ Posto("find_peaks_inviluppo") > 0 =>
              Prima("fft_inviluppo", "find_peaks_inviluppo")

\* a beat measured on the primary path, from the spectrum of the smoothed
\* envelope
C24_PrimariaSmussata ==
    /\ DueToniFinito
    /\ esito.via_misura = "fft_inviluppo"
    /\ Prima("smooth", "fft_inviluppo")

(***************************************************************************)
(* Further properties of Part I.                                           *)
(***************************************************************************)
\* the call went past the floor and one of the two searches found nothing
InFallback ==
    /\ Tornato
    /\ ris.normalizzato
    /\ (ris.trovato_sx = None \/ ris.trovato_dx = None)

\* C25: when the estimator takes the half-maximum fallback with a maximum
\* at or above the floor, the peak itself is above one half after the
\* normalisation, so the return (0, 0, N-1) for 'no sample above half
\* maximum' is never taken, and the returned indices bracket the central
\* maximum: idx_sx <= idx_centro <= idx_dx.
C25_FallbackRacchiude ==
    /\ Tornato => ris.via # "nohalf"
    /\ InFallback =>
          /\ AboveHalf(inviluppo, np_max(inviluppo), ris.idx_centro)
          /\ ris.via = "fwhm"
          /\ ris.idx_sx <= ris.idx_centro
          /\ ris.idx_centro <= ris.idx_dx

\* a fallback in which one search had found a minimum and the other had
\* not, with samples above one half on both sides of the peak
C25_Witness ==
    /\ InFallback
    /\ ris.via = "fwhm"
    /\ ris.trovato_sx # ris.trovato_dx
    /\ ris.idx_sx < ris.idx_centro
    /\ ris.idx_centro < ris.idx_dx

\* distance=int(10 * window_size_beat / sample_rate_beat), in bins
DistanzaBin == (DistanzaHz * window_size_beat(n_camp)) \div sample_rate_beat

\* C26: whenever two tones are reported they come from two distinct bins of
\* the spectrum, at least int(10 * window / fs) >= 1 bins apart, so that
\* f1 < f2 strictly and the theoretical beat is positive, not smaller than
\* that separation times fs / window; the branches of the zero-beat guards
\* (relative error 0, theoretical period 0) are not taken.
C26_DueBinDistinti ==
    DueToniFinito =>
        LET top == esito.top_2_peaks
            w == window_size_beat(n_camp)
        IN  /\ DistanzaBin >= 1
            /\ top[1] # top[2]
            /\ Abs(top[1] - top[2]) >= DistanzaBin
            /\ esito.f1_rilevata.den = w /\ esito.f2_rilevata.den = w
            /\ esito.f1_rilevata.num < esito.f2_rilevata.num
            /\ esito.f_batt_teorica.den = w
            /\ esito.f_batt_teorica.num > 0
            /\ esito.f_batt_teorica.num >= DistanzaBin * sample_rate_beat
            /\ ~esito.guardie.errore_perc
            /\ ~esito.guardie.T_batt_teorico

\* two tones reported from bins exactly the minimum distance apart, of a
\* spectrum with more than two peaks
C26_Witness ==
    /\ DueToniFinito
    /\ Len(peaks_beat) > 2
    /\ Abs(esito.top_2_peaks[1] - esito.top_2_peaks[2]) = DistanzaBin
    /\ DistanzaBin > 1
    /\ esito.f_batt_teorica.num = DistanzaBin * sample_rate_beat

(***************************************************************************)
(* Properties of Part VI.                                                  *)
(***************************************************************************)
\* the section 'Battimenti' at the end of a script run
BattimentiFine == pagina = "battimenti" /\ pc_s = "fine"

\* the parameter and its two widget copies all hold v
Copie(ss, param, v) ==
    /\ {param, param \o "_slider", param \o "_input"} \subseteq DOMAIN ss
    /\ ss[param] = v
    /\ ss[param \o "_slider"] = v
    /\ ss[param \o "_input"] = v

\* C27: in 'Battimenti', after any sequence of slider moves, numeric-input
\* edits and preset selections, at the end of every script run each of f1,
\* f2, A1, A2 equals both of its widget copies and is the value the script
\* reads; after the selection of a named preset the four parameters and
\* their widgets hold that preset's values.
C27_Sincronizzati ==
    BattimentiFine =>
        /\ \A param \in Elementi(ParametriBatt) :
              /\ param \in DOMAIN session_state
              /\ Copie(session_state, param, session_state[param])
              /\ uscita[param] = session_state[param]
        /\ (evento.tipo = "preset" /\ session_state["preset_batt_k"] # "Personalizzato") =>
              \A param \in Elementi(ParametriBatt) :
                  Copie(session_state, param,
                        PRESET_FAMOSI[session_state["preset_batt_k"]][param])

\* a named preset selected after manual edits: the page holds its values
C27_Witness ==
    /\ BattimentiFine
    /\ evento.tipo = "preset"
    /\ session_state["preset_batt_k"] = "Esperimento Heisenberg (1927)"
    /\ Copie(session_state, "f1", 10000)
    /\ Copie(session_state, "f2", 11000)

\* the parameter that the widget key k belongs to
ParametroDi(k) ==
    CHOOSE param \in Elementi(ParametriBatt) : k \in {param \o "_slider", param \o "_input"}

\* parameter param and its two copies are in both states, with the same values
Invariato(param) ==
    \A k \in {param, param \o "_slider", param \o "_input"} :
        /\ k \in DOMAIN session_state
        /\ k \in DOMAIN session_state'
        /\ session_state'[k] = session_state[k]

\* a step of the section: a manual edit with its callback, the selection of
\* 'Personalizzato', and the script run that follows either
PassoManuale ==
    /\ (BattimentiFine /\ evento'.tipo = "modifica") =>
          LET k == evento'.chiave
              param == ParametroDi(k)
          IN  /\ session_state'[k] # session_state[k]
              /\ Copie(session_state', param, session_state'[k])
              /\ \A q \in Elementi(ParametriBatt) \ {param} : Invariato(q)
              /\ session_state'["preset_batt_k"] = "Personalizzato"
    /\ (BattimentiFine /\ evento'.tipo = "preset"
           /\ session_state'["preset_batt_k"] = "Personalizzato") =>
          \A q \in Elementi(ParametriBatt) : Invariato(q)
    /\ (pagina = "battimenti" /\ pc_s = "rerun" /\ pc_s' = "fine"
           /\ (evento.tipo = "modifica"
                 \/ (evento.tipo = "preset"
                       /\ session_state["preset_batt_k"] = "Personalizzato"))) =>
          /\ session_state' = session_state
          /\ \A q \in Elementi(ParametriBatt) : uscita'[q] = session_state[q]

\* C28: in 'Battimenti' a manual edit of one parameter, by its slider or its
\* numeric input, changes that parameter and its two widget copies only,
\* leaves the other three parameters as they were and sets the preset box to
\* 'Personalizzato'; the selection of 'Personalizzato' changes no parameter
\* and no widget value.
C28_SoloIlParametro == [][PassoManuale]_vars

\* a manual edit of A2 made while a named preset was loaded: the preset's
\* frequencies stay, the box shows 'Personalizzato'
C28_Witness ==
    /\ BattimentiFine
    /\ evento = [tipo |-> "modifica", chiave |-> "A2_input"]
    /\ session_state["preset_batt_k"] = "Personalizzato"
    /\ Copie(session_state, "A2", 20)
    /\ Copie(session_state, "f1", 10000)
    /\ Copie(session_state, "f2", 11000)

\* the custom mode of 'Pacchetti d'Onda' at the end of a script run
PacchettiFine == pagina = "pacchetti" /\ pc_s = "fine"

\* C29 as stated: in the custom mode of 'Pacchetti d'Onda', after any
\* sequence of edits of the f_min and f_max sliders and inputs, the slider
\* and input copies of each frequency are equal and f_min < f_max <= 500 Hz:
\* f_max stays inside the range of its own widget.
C29_EntroCinquecento ==
    PacchettiFine =>
        /\ session_state["pkt_fmin_s"] = session_state["pkt_fmin_i"]
        /\ session_state["pkt_fmax_s"] = session_state["pkt_fmax_i"]
        /\ session_state["pkt_fmin_s"] < session_state["pkt_fmax_s"]
        /\ session_state["pkt_fmax_s"] <= 5000

\* what does hold: the copies are equal, f_max is at least 1 Hz above f_min
\* and the script reads the stored values; f_max can reach 505 Hz
C29_Sincronizzati ==
    PacchettiFine =>
        /\ session_state["pkt_fmin_s"] = session_state["pkt_fmin_i"]
        /\ session_state["pkt_fmax_s"] = session_state["pkt_fmax_i"]
        /\ session_state["pkt_n_s"] = session_state["pkt_n_i"]
        /\ session_state["pkt_fmin_s"] + 10 <= session_state["pkt_fmax_s"]
        /\ session_state["pkt_fmax_s"] <= 5050
        /\ uscita.f_min = session_state["pkt_fmin_s"]
        /\ uscita.f_max = session_state["pkt_fmax_s"]

\* f_min moved to 500 Hz: f_max is lifted to 505 Hz, above the maximum of
\* its widgets, whose minimum min_fmax is 501 Hz
C29_OltreIlMassimo ==
    /\ PacchettiFine
    /\ session_state["pkt_fmin_s"] = 5000
    /\ session_state["pkt_fmax_s"] = 5050
    /\ session_state["pkt_fmax_i"] = 5050
    /\ uscita.min_fmax = 5010

\* the section 'Animazione Propagazione' at the end of a script run
AnimazioneFine == pagina = "animazione" /\ pc_s = "fine"

\* the flag anim_ready as the script reads it
anim_ready == get(session_state, "anim_ready", FALSE)

\* a step of the section: the run made for a click sets the flag and nothing
\* else does, once set the flag stays set, a run that finds it set generates
\* the animation with the values the controls hold, and a run that finds it
\* unset and sets it not generates none
PassoAnimazione ==
    pagina = "animazione" =>
        /\ anim_ready => get(session_state', "anim_ready", FALSE)
        /\ (pc_s = "rerun" /\ pc_s' = "fine") =>
              /\ (uscita'.mostra = "animazione")
                    <=> (anim_ready \/ evento.tipo = "clic")
              /\ uscita'.tipo = session_state'["tipo_anim"]
              /\ uscita'.lunghezza = session_state'["anim_lung"]
              /\ uscita'.durata = session_state'["anim_dur"]
              /\ uscita'.n_frame = session_state'["anim_frames"]
        /\ (pc_s = "rerun" /\ pc_s' = "fine" /\ evento.tipo = "clic") =>
              get(session_state', "anim_ready", FALSE)
        /\ (~anim_ready /\ get(session_state', "anim_ready", FALSE)) =>
              evento.tipo = "clic"

\* C30: in 'Animazione Propagazione' no animation is generated before the
\* first click on 'Genera Animazione'; once clicked, anim_ready stays true on
\* every later run (nothing resets it), so that from then on every change of
\* a parameter regenerates the animation without a new click.
C30_ProntaPerSempre == [][PassoAnimazione]_vars

\* the page shows the animation exactly when the flag is set
C30_MostraSePronta ==
    AnimazioneFine => ((uscita.mostra = "animazione") <=> anim_ready)

\* a run made for a change of the number of frames, after the click: the
\* animation is generated again, with the new value
C30_Witness ==
    /\ AnimazioneFine
    /\ evento = [tipo |-> "modifica", chiave |-> "anim_frames"]
    /\ anim_ready
    /\ uscita.mostra = "animazione"
    /\ uscita.n_frame = 100
    /\ uscita.tipo = "Battimenti"

=============================================================================
